---- MODULE Spec2Model ----
(***************************************************************************)
(* Task lifecycle of the youtube-downloader-mcp core services:             *)
(*   lib/core/youtube_video_downloader_service.js   (download tasks)       *)
(*   lib/core/video_transcription_service.js        (transcription tasks)  *)
(*   lib/core/download_task_persistent_json_store.js (task store)          *)
(*   lib/core/download_task_runtime_state_tracker.js (runtime registry)    *)
(*                                                                         *)
(* Encoding conventions                                                    *)
(*   - JavaScript strings are TLA+ strings; characters are 1-char strings. *)
(*   - A nullable field holds NULL (= <<>>) or Some(v) (= <<v>>).          *)
(*   - percentage is kept in tenths of a percent (100% = 1000), because    *)
(*     the download parser rounds to one decimal place.                    *)
(*   - timestamps and Date.now() are the integer clock `now` (ms).         *)
(*   - an object (record, patch, JSON payload) is a function from field    *)
(*     names to values; the JavaScript null patch is the empty object.     *)
(***************************************************************************)
EXTENDS Integers, Sequences, FiniteSets, TLC

(***************************************************************************)
(* Option values                                                           *)
(***************************************************************************)
NULL == <<>>

Some(v) == <<v>>

\* the JavaScript value undefined, kept apart from null
UNDEFINED == <<"undefined", "undefined">>

(***************************************************************************)
(* String helpers (JavaScript String/RegExp primitives)                    *)
(***************************************************************************)
CharAt(s, i) == IF i >= 1 /\ i <= Len(s) THEN SubSeq(s, i, i) ELSE ""

DigitChars == {"0", "1", "2", "3", "4", "5", "6", "7", "8", "9"}

LowerChars ==
  {"a", "b", "c", "d", "e", "f", "g", "h", "i", "j", "k", "l", "m",
   "n", "o", "p", "q", "r", "s", "t", "u", "v", "w", "x", "y", "z"}

UpperChars ==
  {"A", "B", "C", "D", "E", "F", "G", "H", "I", "J", "K", "L", "M",
   "N", "O", "P", "Q", "R", "S", "T", "U", "V", "W", "X", "Y", "Z"}

\* \w of a JavaScript regular expression
WordChars == DigitChars \cup LowerChars \cup UpperChars \cup {"_"}

\* \s of a JavaScript regular expression (the ASCII part)
SpaceChars == {" ", "\t", "\r", "\n", "\f"}

\* characters that `.` does not match
LineTerminatorChars == {"\n", "\r"}

UpperToLower ==
  [c \in UpperChars |->
     CASE c = "A" -> "a" [] c = "B" -> "b" [] c = "C" -> "c" [] c = "D" -> "d"
       [] c = "E" -> "e" [] c = "F" -> "f" [] c = "G" -> "g" [] c = "H" -> "h"
       [] c = "I" -> "i" [] c = "J" -> "j" [] c = "K" -> "k" [] c = "L" -> "l"
       [] c = "M" -> "m" [] c = "N" -> "n" [] c = "O" -> "o" [] c = "P" -> "p"
       [] c = "Q" -> "q" [] c = "R" -> "r" [] c = "S" -> "s" [] c = "T" -> "t"
       [] c = "U" -> "u" [] c = "V" -> "v" [] c = "W" -> "w" [] c = "X" -> "x"
       [] c = "Y" -> "y" [] c = "Z" -> "z"]

LowerChar(c) == IF c \in UpperChars THEN UpperToLower[c] ELSE c

SetMin(S) == CHOOSE x \in S : \A y \in S : x <= y

SetMax(S) == CHOOSE x \in S : \A y \in S : x >= y

\* String.prototype.trim
Trim(s) ==
  LET keep == {i \in 1..Len(s) : CharAt(s, i) \notin SpaceChars}
  IN  IF keep = {} THEN "" ELSE SubSeq(s, SetMin(keep), SetMax(keep))

\* the substring of s at position i equals p
MatchesAt(s, i, p) ==
  /\ i >= 1
  /\ i + Len(p) - 1 <= Len(s)
  /\ SubSeq(s, i, i + Len(p) - 1) = p

\* the same, ignoring case (the /i flag)
MatchesAtIgnoreCase(s, i, p) ==
  /\ i >= 1
  /\ i + Len(p) - 1 <= Len(s)
  /\ \A k \in 1..Len(p) : LowerChar(CharAt(s, i + k - 1)) = LowerChar(CharAt(p, k))

\* String.prototype.startsWith
StartsWith(s, p) == MatchesAt(s, 1, p)

\* String.prototype.includes
Includes(s, p) == \E i \in 1..Len(s) : MatchesAt(s, i, p)

\* \b between positions i-1 and i of s (i in 1..Len(s)+1)
WordBoundaryAt(s, i) ==
  (CharAt(s, i - 1) \in WordChars) # (CharAt(s, i) \in WordChars)

\* end (exclusive) of the longest run of characters of `chars` starting at i
RECURSIVE RunEnd(_, _, _)
RunEnd(s, i, chars) ==
  IF i <= Len(s) /\ CharAt(s, i) \in chars THEN RunEnd(s, i + 1, chars) ELSE i

\* end (exclusive) of the longest run of characters outside `chars` starting at i
RECURSIVE RunEndNot(_, _, _)
RunEndNot(s, i, chars) ==
  IF i <= Len(s) /\ CharAt(s, i) \notin chars THEN RunEndNot(s, i + 1, chars) ELSE i

DigitValue(c) ==
  CASE c = "0" -> 0 [] c = "1" -> 1 [] c = "2" -> 2 [] c = "3" -> 3 [] c = "4" -> 4
    [] c = "5" -> 5 [] c = "6" -> 6 [] c = "7" -> 7 [] c = "8" -> 8 [] c = "9" -> 9

\* value of a string of decimal digits
RECURSIVE DigitsValue(_)
DigitsValue(s) ==
  IF Len(s) = 0 THEN 0
  ELSE DigitsValue(SubSeq(s, 1, Len(s) - 1)) * 10 + DigitValue(CharAt(s, Len(s)))

RECURSIVE PowerOfTen(_)
PowerOfTen(n) == IF n = 0 THEN 1 ELSE 10 * PowerOfTen(n - 1)

\* path.basename (POSIX): the last segment, trailing slashes dropped
Basename(p) ==
  LET nonSlash == {i \in 1..Len(p) : CharAt(p, i) # "/"}
  IN  IF nonSlash = {} THEN (IF Len(p) = 0 THEN "" ELSE "/")
      ELSE LET last   == SetMax(nonSlash)
               slashes == {i \in 1..last : CharAt(p, i) = "/"}
               first  == IF slashes = {} THEN 1 ELSE SetMax(slashes) + 1
           IN  SubSeq(p, first, last)

(***************************************************************************)
(* Objects: records and patches as functions from field names to values    *)
(***************************************************************************)
EmptyObject == [k \in {} |-> NULL]

\* { ...a, ...b }
Spread(a, b) ==
  [k \in (DOMAIN a) \cup (DOMAIN b) |-> IF k \in DOMAIN b THEN b[k] ELSE a[k]]

Has(o, k) == k \in DOMAIN o

(***************************************************************************)
(* Download output parser: parseYtDlpProgressOutputLine                    *)
(***************************************************************************)
\* trimmedLine.match(/Destination:\s+(.+)$/): NULL or Some(capture group 1)
DestinationFileMatch(line) ==
  LET key    == "Destination:"
      starts == {i \in 1..Len(line) :
                   /\ MatchesAt(line, i, key)
                   /\ CharAt(line, i + Len(key)) \in SpaceChars
                   /\ LET p == RunEnd(line, i + Len(key), SpaceChars)
                      IN  /\ p <= Len(line)
                          /\ RunEndNot(line, p, LineTerminatorChars) = Len(line) + 1}
  IN  IF starts = {} THEN NULL
      ELSE LET i == SetMin(starts)
               p == RunEnd(line, i + Len(key), SpaceChars)
           IN  Some(SubSeq(line, p, Len(line)))

\* the matches of \b(\d+(?:\.\d+)?)% followed by \b that start at position i:
\* NULL or Some(<<integer digits, fraction digits>>)
PercentTokenAt(line, i) ==
  IF ~(CharAt(line, i) \in DigitChars /\ WordBoundaryAt(line, i)) THEN NULL
  ELSE LET j == RunEnd(line, i, DigitChars)
           k == RunEnd(line, j + 1, DigitChars)
       IN  IF /\ CharAt(line, j) = "."
              /\ k > j + 1
              /\ CharAt(line, k) = "%"
              /\ WordBoundaryAt(line, k + 1)
           THEN Some(<<SubSeq(line, i, j - 1), SubSeq(line, j + 1, k - 1)>>)
           ELSE IF CharAt(line, j) = "%" /\ WordBoundaryAt(line, j + 1)
           THEN Some(<<SubSeq(line, i, j - 1), "">>)
           ELSE NULL

\* trimmedLine.match(/\b(\d+(?:\.\d+)?)%\b/): NULL or Some(<<int, frac>>)
PercentageMatch(line) ==
  LET starts == {i \in 1..Len(line) : PercentTokenAt(line, i) # NULL}
  IN  IF starts = {} THEN NULL ELSE PercentTokenAt(line, SetMin(starts))

\* Math.round(Math.min(100, Number(text)) * 10) / 10, in tenths of a percent
RoundedPercentTenths(token) ==
  LET intPart  == DigitsValue(token[1])
      fracLen  == Len(token[2])
      scale    == PowerOfTen(fracLen)
      scaled   == intPart * scale + DigitsValue(token[2])
  IN  IF scaled >= 100 * scale THEN 1000
      ELSE (scaled * 20 + scale) \div (2 * scale)

\* the capture of \bat\s+([^\s]+\/s)\b for a match that starts at position i
SpeedTokenAt(line, i) ==
  IF ~(MatchesAt(line, i, "at") /\ WordBoundaryAt(line, i)
        /\ CharAt(line, i + 2) \in SpaceChars) THEN NULL
  ELSE LET p    == RunEnd(line, i + 2, SpaceChars)
           q    == RunEndNot(line, p, SpaceChars)
           ends == {e \in (p + 3)..q :
                      /\ MatchesAt(line, e - 2, "/s")
                      /\ WordBoundaryAt(line, e)}
       IN  IF ends = {} THEN NULL ELSE Some(SubSeq(line, p, SetMax(ends) - 1))

\* trimmedLine.match(/\bat\s+([^\s]+\/s)\b/): NULL or Some(capture group 1)
DownloadSpeedMatch(line) ==
  LET starts == {i \in 1..Len(line) : SpeedTokenAt(line, i) # NULL}
  IN  IF starts = {} THEN NULL ELSE SpeedTokenAt(line, SetMin(starts))

\* the capture of \bETA\s+([0-9:]+|Unknown)\b (flag i) for a match at position i
EtaTokenAt(line, i) ==
  IF ~(MatchesAtIgnoreCase(line, i, "ETA") /\ WordBoundaryAt(line, i)
        /\ CharAt(line, i + 3) \in SpaceChars) THEN NULL
  ELSE LET p    == RunEnd(line, i + 3, SpaceChars)
           q    == RunEnd(line, p, DigitChars \cup {":"})
           ends == {e \in (p + 1)..q : WordBoundaryAt(line, e)}
       IN  IF ends # {} THEN Some(SubSeq(line, p, SetMax(ends) - 1))
           ELSE IF MatchesAtIgnoreCase(line, p, "Unknown") /\ WordBoundaryAt(line, p + 7)
           THEN Some(SubSeq(line, p, p + 6))
           ELSE NULL

\* trimmedLine.match(/\bETA\s+([0-9:]+|Unknown)\b/i): NULL or Some(capture group 1)
EstimatedTimeMatch(line) ==
  LET starts == {i \in 1..Len(line) : EtaTokenAt(line, i) # NULL}
  IN  IF starts = {} THEN NULL ELSE EtaTokenAt(line, SetMin(starts))

\* trimmedLine.replace(/^ERROR:\s*/i, "")
StripErrorPrefix(line) ==
  IF MatchesAtIgnoreCase(line, 1, "ERROR:")
  THEN SubSeq(line, RunEnd(line, 7, SpaceChars), Len(line))
  ELSE line

IsErrorLine(line) == StartsWith(line, "ERROR:") \/ Includes(line, "Error:")

\* the patch of one output line; the empty object stands for `null`
parseYtDlpProgressOutputLine(rawLine) ==
  LET trimmedLine == Trim(rawLine)
      dest        == DestinationFileMatch(trimmedLine)
      pct         == PercentageMatch(trimmedLine)
      speed       == DownloadSpeedMatch(trimmedLine)
      eta         == EstimatedTimeMatch(trimmedLine)
      p0 == [last_line |-> Some(trimmedLine)]
      p1 == IF dest # NULL
            THEN Spread(p0, [file_path |-> Some(Trim(dest[1])),
                             file_name |-> Some(Basename(Trim(dest[1])))])
            ELSE p0
      p2 == IF Includes(trimmedLine, "has already been downloaded")
            THEN Spread(p1, [status |-> "completed", percentage |-> 1000])
            ELSE p1
      p3 == IF StartsWith(trimmedLine, "[download]") /\ pct # NULL
            THEN Spread(p2, [status |-> "downloading",
                             percentage |-> RoundedPercentTenths(pct[1])])
            ELSE p2
      p4 == IF speed # NULL THEN Spread(p3, [speed |-> speed]) ELSE p3
      p5 == IF eta # NULL THEN Spread(p4, [eta |-> eta]) ELSE p4
      p6 == IF IsErrorLine(trimmedLine)
            THEN Spread(p5, [status |-> "failed",
                             error |-> Some(StripErrorPrefix(trimmedLine))])
            ELSE p5
  IN  IF trimmedLine = "" THEN EmptyObject ELSE p6

(***************************************************************************)
(* Bounds of the model                                                     *)
(***************************************************************************)
\* number of StartTask calls
MaxTasks == 1

\* number of `data` events delivered over all tasks
MaxChunks == 3

\* Date.now() when the owning process starts
ClockStart == 1000

\* granularity of the modelled clock (ms) and the number of clock steps
TickMs == 500

MaxTicks == 2

(***************************************************************************)
(* Program constants                                                       *)
(***************************************************************************)
\* minimal distance between two unforced store writes of one task (ms)
PERSIST_INTERVAL_MS == 1000

\* exit code handed to `close` after a failed spawn (-ENOENT)
SPAWN_FAILURE_EXIT_CODE == -2

TerminalStatuses == {"completed", "failed"}

TaskIds == 1..MaxTasks

StreamNames == {"stdout", "stderr"}

\* exit codes of a child that ran: success and failure
ExitCodes == {Some(0), Some(1)}

(***************************************************************************)
(* Output of the external tools, as the chunks the streams deliver         *)
(***************************************************************************)
\* stdout of yt-dlp: progress lines
DownloadStdoutChunks ==
  {"[download] 50.0%of 9MiB at 2MiB/s ETA 00:10\r\n",
   "[download] a.mp4 has already been downloaded\n",
   "[download] Destination: out/a.mp4\n[download] 100%of 9MiB\n"}

\* stderr of yt-dlp: diagnostics; the second chunk ends without a newline
DownloadStderrChunks ==
  {"ERROR: boom\n",
   "WARNING: HTTP Error: 429"}

DownloadChunks(stream) ==
  IF stream = "stdout" THEN DownloadStdoutChunks ELSE DownloadStderrChunks

\* stderr of the transcription script: JSON progress lines and plain text;
\* the first chunk ends without a newline
TranscriptionChunks ==
  {"{\"progress\":0.4}",
   "{\"progress\":0.5}\n",
   "{\"progress\":1.0}\n",
   "{\"progress\":1.5}\n",
   "{\"status\":\"completed\",\"progress\":1.0,\"language\":\"en\",\"elapsed_seconds\":3}\n",
   "{\"status\":\"error\",\"error\":\"oom\"}\n",
   "loading model\n{\"status\":\"loading\",\"id\":99,\"type\":\"download\",\"created_at\":0}\n"}

(***************************************************************************)
(* JSON.parse on the lines of the transcription tool.  A JSON value is     *)
(* [kind, fields]; numbers with a fraction are kept in thousandths         *)
(* (progress 0.5 = 500).  Text that is not one of the tool's JSON lines    *)
(* raises SyntaxError (NULL).                                              *)
(***************************************************************************)
JsonObject(fields) == [kind |-> "object", fields |-> fields]

JsonParse(text) ==
  CASE text = "{\"progress\":0.5}" -> Some(JsonObject([progress |-> 500]))
    [] text = "{\"progress\":0.2}" -> Some(JsonObject([progress |-> 200]))
    [] text = "{\"progress\":0.4}" -> Some(JsonObject([progress |-> 400]))
    [] text = "{\"progress\":1.0}" -> Some(JsonObject([progress |-> 1000]))
    [] text = "{\"progress\":1.5}" -> Some(JsonObject([progress |-> 1500]))
    [] text = "{\"status\":\"completed\",\"progress\":1.0,\"language\":\"en\",\"elapsed_seconds\":3}"
         -> Some(JsonObject([status |-> "completed", progress |-> 1000,
                             language |-> "en", elapsed_seconds |-> 3]))
    [] text = "{\"status\":\"error\",\"error\":\"oom\"}"
         -> Some(JsonObject([status |-> "error", error |-> "oom"]))
    [] text = "{\"status\":\"loading\",\"id\":99,\"type\":\"download\",\"created_at\":0}"
         -> Some(JsonObject([status |-> "loading", id |-> 99, type |-> "download",
                             created_at |-> 0]))
    [] OTHER -> NULL

\* progressData.<key>, NULL for undefined
JsonField(value, key) ==
  IF Has(value.fields, key) THEN Some(value.fields[key]) ELSE NULL

\* Math.round((progressData.progress || 0) * 100), in tenths of a percent
TranscriptionPercentTenths(progressData) ==
  LET progress == IF JsonField(progressData, "progress") = NULL THEN 0
                  ELSE progressData.fields.progress
  IN  ((progress + 5) \div 10) * 10

(***************************************************************************)
(* State                                                                   *)
(***************************************************************************)
VARIABLES
  now,        \* the clock: Date.now() and getCurrentIsoTimestamp()
  tasks,      \* cachedDatabaseContents.tasks, the persisted TaskRecords
  registry,   \* ACTIVE_TASK_RUNTIME_STATES
  writer,     \* per download task: pendingProgressPatch, lastDiskPersistTimestamp
  buffers,    \* per task and stream: incompleteLineBuffer / stderrLineBuffer
  proc,       \* per task: the child process and its two output streams
  delivered,  \* number of `data` events delivered so far
  held,       \* per task: the patches handed to the writer since its last write
  applied,    \* per task: all patches handed to the writer, merged in arrival order
  step        \* the handler that ran last: its event, writer calls and store writes

vars == <<now, tasks, registry, writer, buffers, proc, delivered, held, applied, step>>

\* the store module as the processes sharing the data directory see it
VARIABLES
  disk,       \* data/tasks.json: NULL while the file is missing, else its text
  caches,     \* per process: cachedDatabaseContents (NULL until the first access)
  storeStep   \* the store call made last and what it returned

storeVars == <<disk, caches, storeStep>>

\* one output stream of a download task, followed byte by byte: the bytes
\* the child wrote (content), those not yet delivered (unread), the reader's
\* incompleteLineBuffer, the lines handed to the parser, and whether `end`
\* was delivered
VARIABLE reader

\* one call of parseYtDlpProgressOutputLine: the line it is given and, once
\* it has returned, the patch it returned
VARIABLE parserCall

(***************************************************************************)
(* PersistentTaskStore: download_task_persistent_json_store.js             *)
(***************************************************************************)
\* database.tasks.findIndex(task => task.id === taskId), 0 for -1
TaskIndex(ts, taskId) ==
  LET hits == {i \in 1..Len(ts) : ts[i].id = taskId}
  IN  IF hits = {} THEN 0 ELSE SetMin(hits)

\* findTaskRecordById on the cache `ts`: NULL or Some(record)
findTaskRecordById(ts, taskId) ==
  IF TaskIndex(ts, taskId) = 0 THEN NULL ELSE Some(ts[TaskIndex(ts, taskId)])

\* insertNewTaskRecord: the cache after the push
insertNewTaskRecord(ts, taskRecord) == Append(ts, taskRecord)

\* the time stamp set before the patch is spread over the record
UpdatedRecord_KeepsPatchStamp(record, patchFields, time) ==
  Spread(Spread(record, [updated_at |-> time]), patchFields)

\* the patch replacing the record instead of being merged into it
UpdatedRecord_Replaces(record, patchFields, time) ==
  Spread(patchFields, [updated_at |-> time])

\* the record updateExistingTaskRecord builds
UpdatedRecord(record, patchFields, time) ==
  Spread(Spread(record, patchFields), [updated_at |-> time])

\* the update adding a record when no record has the id
updateExistingTaskRecord_Upserts(ts, taskId, patchFields, time) ==
  LET taskIndex == TaskIndex(ts, taskId)
      updatedRecord == UpdatedRecord(IF taskIndex = 0 THEN [id |-> taskId] ELSE ts[taskIndex],
                                     patchFields, time)
  IN  [tasks  |-> IF taskIndex = 0 THEN Append(ts, updatedRecord)
                  ELSE [ts EXCEPT ![taskIndex] = updatedRecord],
       result |-> Some(updatedRecord)]

\* updateExistingTaskRecord: the cache afterwards and the value returned
updateExistingTaskRecord(ts, taskId, patchFields, time) ==
  LET taskIndex == TaskIndex(ts, taskId)
  IN  IF taskIndex = 0 THEN [tasks |-> ts, result |-> NULL]
      ELSE LET updatedRecord == UpdatedRecord(ts[taskIndex], patchFields, time)
           IN  [tasks  |-> [ts EXCEPT ![taskIndex] = updatedRecord],
                result |-> Some(updatedRecord)]

(***************************************************************************)
(* A handler runs on a context: the store, the task's writer closure and   *)
(* what the handler did (writer calls, records written to the store).      *)
(***************************************************************************)
HandlerContext(taskId) ==
  [tasks   |-> tasks,
   pending |-> IF taskId \in DOMAIN writer THEN writer[taskId].pending ELSE NULL,
   last    |-> IF taskId \in DOMAIN writer THEN writer[taskId].last ELSE 0,
   held    |-> IF taskId \in DOMAIN held THEN held[taskId] ELSE <<>>,
   applied |-> IF taskId \in DOMAIN applied THEN applied[taskId] ELSE EmptyObject,
   calls   |-> <<>>,
   writes  |-> <<>>]

\* a store update made by a handler, with the written record noted
StoreUpdate(ctx, taskId, patchFields, time) ==
  LET outcome == updateExistingTaskRecord(ctx.tasks, taskId, patchFields, time)
  IN  [ctx EXCEPT !.tasks  = outcome.tasks,
                  !.writes = IF outcome.result = NULL THEN @
                             ELSE Append(@, outcome.result[1])]

(***************************************************************************)
(* BatchedPersistenceWriter: persistProgressPatchToDisk                    *)
(***************************************************************************)
\* the interval test with the boundary on the wrong side
HoldsPatch_Inclusive(forceImmediately, currentTime, lastDiskPersistTimestamp) ==
  ~forceImmediately /\ currentTime - lastDiskPersistTimestamp <= PERSIST_INTERVAL_MS

\* the interval test without the forced flush
HoldsPatch_IgnoresForce(forceImmediately, currentTime, lastDiskPersistTimestamp) ==
  currentTime - lastDiskPersistTimestamp < PERSIST_INTERVAL_MS

\* line 190: the patch stays in the accumulator
HoldsPatch(forceImmediately, currentTime, lastDiskPersistTimestamp) ==
  ~forceImmediately /\ currentTime - lastDiskPersistTimestamp < PERSIST_INTERVAL_MS

\* the merge with the operands swapped: held values win over newer ones
MergeIntoPending_Reversed(pendingProgressPatch, patch) == Spread(patch, pendingProgressPatch)

\* line 188: pendingProgressPatch = { ...(pendingProgressPatch || {}), ...patch }
MergeIntoPending(pendingProgressPatch, patch) == Spread(pendingProgressPatch, patch)

persistProgressPatchToDisk(ctx, taskId, patch, forceImmediately, currentTime) ==
  IF patch = EmptyObject THEN ctx
  ELSE
    LET merged  == MergeIntoPending(ctx.pending, patch)
        heldNow == Append(ctx.held, patch)
        seen    == [ctx EXCEPT !.applied = Spread(@, patch)]
        call    == [patch |-> patch, force |-> forceImmediately,
                    time |-> currentTime, last |-> ctx.last, held |-> heldNow]
    IN  IF HoldsPatch(forceImmediately, currentTime, ctx.last)
        THEN [seen EXCEPT !.pending = merged,
                         !.held    = heldNow,
                         !.calls   = Append(@, call @@ [wrote |-> FALSE,
                                                        written |-> NULL,
                                                        pendingAfter |-> merged])]
        ELSE LET after == StoreUpdate(seen, taskId, merged, currentTime)
             IN  [after EXCEPT !.pending = NULL,
                               !.last    = currentTime,
                               !.held    = <<>>,
                               !.calls   = Append(@, call @@
                                  [wrote |-> Len(after.writes) > Len(ctx.writes),
                                   written |-> Some(merged),
                                   pendingAfter |-> NULL])]

\* processOutputLine of a download task
processOutputLine(ctx, taskId, line, currentTime) ==
  IF line = "" THEN ctx
  ELSE persistProgressPatchToDisk(ctx, taskId, parseYtDlpProgressOutputLine(line),
                                  FALSE, currentTime)

RECURSIVE ProcessOutputLines(_, _, _, _)
ProcessOutputLines(ctx, taskId, lines, currentTime) ==
  IF lines = <<>> THEN ctx
  ELSE ProcessOutputLines(processOutputLine(ctx, taskId, Head(lines), currentTime),
                          taskId, Tail(lines), currentTime)

(***************************************************************************)
(* Line buffering: attachStreamLineHandler and the stderr reader           *)
(***************************************************************************)
\* text.split(/\r?\n/)
RECURSIVE SplitLines(_)
SplitLines(text) ==
  LET newlines == {i \in 1..Len(text) : CharAt(text, i) = "\n"}
  IN  IF newlines = {} THEN <<text>>
      ELSE LET i     == SetMin(newlines)
               stop  == IF CharAt(text, i - 1) = "\r" THEN i - 2 ELSE i - 1
           IN  <<SubSeq(text, 1, stop)>> \o SplitLines(SubSeq(text, i + 1, Len(text)))

\* the lines a chunk completes
CompletedLines(buffer, chunk) ==
  LET pieces == SplitLines(buffer \o chunk)
  IN  SubSeq(pieces, 1, Len(pieces) - 1)

\* completedLines.pop() || ""
RemainingBuffer(buffer, chunk) ==
  LET pieces == SplitLines(buffer \o chunk)
  IN  pieces[Len(pieces)]

(***************************************************************************)
(* Transcription stderr reader: the JSON progress lines                    *)
(***************************************************************************)
\* transcriptOutputPath of startBackgroundTranscriptionTask
TranscriptOutputPath == "out/a.txt"

\* a patch that carries the keys of the payload at its top level
TranscriptionPatch_SpreadsPayload(progressData, time) ==
  Spread([last_progress |-> Some(progressData),
          percentage    |-> TranscriptionPercentTenths(progressData)],
         progressData.fields)

\* the patch built from one parsed JSON line
TranscriptionPatch(progressData, time) ==
  LET base == [last_progress |-> Some(progressData),
               percentage    |-> TranscriptionPercentTenths(progressData)]
      status == JsonField(progressData, "status")
  IN  IF status = Some("completed")
      THEN Spread(base,
             [status            |-> "completed",
              percentage        |-> 1000,
              finished_at       |-> Some(time),
              transcript_path   |-> IF JsonField(progressData, "transcript_path") = NULL
                                    THEN Some(TranscriptOutputPath)
                                    ELSE JsonField(progressData, "transcript_path"),
              detected_language |-> JsonField(progressData, "language"),
              elapsed_seconds   |-> JsonField(progressData, "elapsed_seconds")])
      ELSE IF status = Some("error")
      THEN Spread(base,
             [status |-> "failed",
              error  |-> IF JsonField(progressData, "error") = NULL
                         THEN Some("Unknown transcription error")
                         ELSE JsonField(progressData, "error")])
      ELSE base

\* the body of the loop over completedLines in the stderr `data` handler
processTranscriptionLine(ctx, taskId, line, time) ==
  LET trimmedLine == Trim(line)
      parsed      == JsonParse(trimmedLine)
  IN  IF trimmedLine = "" THEN ctx
      ELSE IF parsed = NULL THEN ctx
      ELSE IF parsed[1].kind = "null" THEN ctx
      ELSE StoreUpdate(ctx, taskId, TranscriptionPatch(parsed[1], time), time)

RECURSIVE ProcessTranscriptionLines(_, _, _, _)
ProcessTranscriptionLines(ctx, taskId, lines, time) ==
  IF lines = <<>> THEN ctx
  ELSE ProcessTranscriptionLines(processTranscriptionLine(ctx, taskId, Head(lines), time),
                                 taskId, Tail(lines), time)

(***************************************************************************)
(* Process-error and process-exit handlers                                 *)
(***************************************************************************)
\* error.message of a failed spawn
SpawnErrorMessage == "spawn ENOENT"

\* the error handler recording the failure without its message
DownloadErrorHandler_DropsMessage(ctx, taskId, time) ==
  persistProgressPatchToDisk(ctx, taskId, [status |-> "failed"], TRUE, time)

\* childProcess.on("error") of a download task
DownloadErrorHandler(ctx, taskId, time) ==
  persistProgressPatchToDisk(ctx, taskId,
    [status |-> "failed", error |-> Some(SpawnErrorMessage)], TRUE, time)

\* the completion patch without the exit code
DownloadCompletionPatch_NoExitCode(exitCode, time) ==
  [status      |-> IF exitCode = Some(0) THEN "completed" ELSE "failed",
   finished_at |-> Some(time)]

\* completionPatch of the download close handler
DownloadCompletionPatch(exitCode, time) ==
  LET finalStatus == IF exitCode = Some(0) THEN "completed" ELSE "failed"
      completionPatch == [status      |-> finalStatus,
                          finished_at |-> Some(time),
                          exit_code   |-> exitCode]
  IN  IF finalStatus = "completed"
      THEN Spread(completionPatch, [percentage |-> 1000])
      ELSE completionPatch

\* the close handler handing its patch to the writer without the forced flush
DownloadCloseHandler_Unforced(ctx, taskId, exitCode, time) ==
  persistProgressPatchToDisk(ctx, taskId, DownloadCompletionPatch(exitCode, time),
                             FALSE, time)

\* childProcess.on("close") of a download task
DownloadCloseHandler(ctx, taskId, exitCode, time) ==
  persistProgressPatchToDisk(ctx, taskId, DownloadCompletionPatch(exitCode, time),
                             TRUE, time)

\* childProcess.on("error") of a transcription task
TranscriptionErrorHandler(ctx, taskId, time) ==
  StoreUpdate(ctx, taskId,
    [status |-> "failed", error |-> Some(SpawnErrorMessage),
     finished_at |-> Some(time)], time)

\* line 200: the close handler stamps `completed`
MarksCompletedOnExit(currentTask) ==
  currentTask # NULL /\ currentTask[1].status # "completed"

\* childProcess.on("close") of a transcription task
TranscriptionCloseHandler(ctx, taskId, exitCode, time) ==
  IF exitCode = Some(0)
  THEN LET stamped     == StoreUpdate(ctx, taskId, [finished_at |-> Some(time)], time)
           currentTask == findTaskRecordById(stamped.tasks, taskId)
       IN  IF MarksCompletedOnExit(currentTask)
           THEN StoreUpdate(stamped, taskId,
                            [status |-> "completed", percentage |-> 1000], time)
           ELSE stamped
  ELSE StoreUpdate(ctx, taskId,
         [status |-> "failed", finished_at |-> Some(time), exit_code |-> exitCode],
         time)

(***************************************************************************)
(* Reading the state                                                       *)
(***************************************************************************)
Started == DOMAIN proc

\* the persisted record of a started task
Rec(taskId) == tasks[TaskIndex(tasks, taskId)]

IsDownload(taskId) == Rec(taskId).type = "download"

IsTerminal(status) == status \in TerminalStatuses

\* an identifier drawn without regard to the identifiers handed out before
generateUniqueTaskIdentifier_Fixed(ts) == 1

\* generateUniqueTaskIdentifier: crypto.randomUUID(), a token no earlier
\* call has returned
generateUniqueTaskIdentifier(ts) == Len(ts) + 1

\* childProcess.pid of a spawned child (undefined when the spawn failed)
ChildPid(taskId, spawned) == IF spawned THEN Some(4000 + taskId) ELSE UNDEFINED

NoStep == [task |-> 0, event |-> "none", exitCode |-> NULL, calls |-> <<>>, writes |-> <<>>]

\* what a handler leaves behind: the store, the writer closure, the step record
Commit(ctx, taskId, event, exitCode) ==
  /\ tasks' = ctx.tasks
  /\ writer' = IF taskId \in DOMAIN writer
               THEN [writer EXCEPT ![taskId] = [pending |-> ctx.pending, last |-> ctx.last]]
               ELSE writer
  /\ held' = [held EXCEPT ![taskId] = ctx.held]
  /\ applied' = [applied EXCEPT ![taskId] = ctx.applied]
  /\ step' = [task |-> taskId, event |-> event, exitCode |-> exitCode,
              calls |-> ctx.calls, writes |-> ctx.writes]
  /\ UNCHANGED <<storeVars, reader, parserCall>>

(***************************************************************************)
(* Initial state: nothing started, empty store                             *)
(***************************************************************************)
NothingStarted ==
  /\ now = ClockStart
  /\ tasks = <<>>
  /\ registry = <<>>
  /\ writer = <<>>
  /\ buffers = <<>>
  /\ proc = <<>>
  /\ delivered = 0
  /\ held = <<>>
  /\ applied = <<>>
  /\ step = NoStep

\* number of processes that share the data directory
MaxInstances == 2

Instances == 1..MaxInstances

NoStoreStep == [op |-> "none", instance |-> 0, id |-> 0, result |-> NULL, count |-> 0]

\* no process has touched the store module yet
StoreUntouched ==
  /\ caches = [instance \in Instances |-> NULL]
  /\ storeStep = NoStoreStep

NoReader == [content |-> <<>>, unread |-> <<>>, incompleteLineBuffer |-> "",
             handed |-> <<>>, ended |-> FALSE]

\* no stream is followed byte by byte
ReaderIdle == reader = NoReader

NoParse == [line |-> "", patch |-> NULL]

\* the parser is not followed on a line of its own
ParserIdle == parserCall = NoParse

Init ==
  /\ NothingStarted
  /\ disk = NULL
  /\ StoreUntouched
  /\ ReaderIdle
  /\ ParserIdle

(***************************************************************************)
(* StartTask                                                               *)
(***************************************************************************)
DownloadTaskRecord(taskId, createdAtTimestamp) ==
  [id |-> taskId, type |-> "download", status |-> "starting", percentage |-> 0,
   speed |-> NULL, eta |-> NULL, file_name |-> NULL, file_path |-> NULL,
   error |-> NULL, pid |-> NULL, last_line |-> NULL,
   created_at |-> createdAtTimestamp, updated_at |-> createdAtTimestamp,
   finished_at |-> NULL]

TranscriptionTaskRecord(taskId, createdAtTimestamp) ==
  [id |-> taskId, type |-> "transcription",
   transcript_path |-> Some(TranscriptOutputPath),
   status |-> "starting", percentage |-> 0, error |-> NULL, pid |-> NULL,
   last_progress |-> NULL,
   created_at |-> createdAtTimestamp, updated_at |-> createdAtTimestamp,
   finished_at |-> NULL]

\* the update after the spawn without the status
RunningPatch_PidOnly(pid) == [pid |-> pid]

\* the patch of the update that follows the spawn
RunningPatch(pid) == [status |-> "running", pid |-> pid]

\* a start that registers the task first and raises before the insert
StartTask_RegistersBeforeInsert(taskRecord, spawned) ==
  /\ registry' = registry @@ (taskRecord.id :> [pid |-> ChildPid(taskRecord.id, spawned),
                                                started_at |-> taskRecord.created_at])
  /\ step' = [task |-> taskRecord.id, event |-> "start_raised", exitCode |-> NULL,
              calls |-> <<>>, writes |-> <<>>]
  /\ UNCHANGED <<now, tasks, buffers, proc, delivered, held, applied>>
  /\ UNCHANGED <<storeVars, reader, parserCall>>

\* the part both StartTask functions share: insert, spawn, register, mark running
StartTask(taskRecord, spawned) ==
  LET taskId   == taskRecord.id
      inserted == insertNewTaskRecord(tasks, taskRecord)
      running  == updateExistingTaskRecord(inserted, taskId,
                    RunningPatch(ChildPid(taskId, spawned)), now)
  IN  /\ tasks' = running.tasks
      /\ registry' = registry @@ (taskId :> [pid |-> ChildPid(taskId, spawned),
                                             started_at |-> taskRecord.created_at])
      /\ buffers' = buffers @@ (taskId :> [stdout |-> "", stderr |-> ""])
      /\ proc' = proc @@ (taskId :> [phase  |-> IF spawned THEN "running" ELSE "spawn_failed",
                                     stdout |-> "open", stderr |-> "open"])
      /\ held' = held @@ (taskId :> <<>>)
      /\ applied' = applied @@ (taskId :> EmptyObject)
      /\ step' = [task |-> taskId, event |-> "start", exitCode |-> NULL,
                  calls |-> <<>>, writes |-> <<taskRecord, running.result[1]>>]
      /\ UNCHANGED <<now, delivered>>
      /\ UNCHANGED <<storeVars, reader, parserCall>>

startBackgroundVideoDownloadTask(spawned) ==
  LET taskId == generateUniqueTaskIdentifier(tasks)
  IN  /\ StartTask(DownloadTaskRecord(taskId, now), spawned)
      /\ writer' = writer @@ (taskId :> [pending |-> NULL, last |-> 0])

startBackgroundTranscriptionTask(spawned) ==
  /\ StartTask(TranscriptionTaskRecord(generateUniqueTaskIdentifier(tasks), now), spawned)
  /\ UNCHANGED writer

(***************************************************************************)
(* StartTask raising an error to its caller.  A precondition fails before  *)
(* the record is built (transcription: the input file is missing, line 68; *)
(* download: yt-dlp cannot be installed, line 129), or spawn() itself      *)
(* throws (any spawn error other than EACCES, EAGAIN, EMFILE, ENFILE and   *)
(* ENOENT is thrown by the call, not emitted as an `error` event), which   *)
(* happens after insertNewTaskRecord and before the registration.          *)
(***************************************************************************)
StartFailureStages == {"precondition", "spawn"}

StartTaskRaises(taskRecord, stage) ==
  LET inserted == insertNewTaskRecord(tasks, taskRecord)
  IN  /\ tasks' = IF stage = "spawn" THEN inserted ELSE tasks
      /\ step' = [task |-> taskRecord.id, event |-> "start_raised", exitCode |-> NULL,
                  calls |-> <<>>,
                  writes |-> IF stage = "spawn" THEN <<taskRecord>> ELSE <<>>]
      /\ UNCHANGED <<now, registry, writer, buffers, proc, delivered, held, applied>>
      /\ UNCHANGED <<storeVars, reader, parserCall>>

startBackgroundVideoDownloadTaskRaises(stage) ==
  StartTaskRaises(DownloadTaskRecord(generateUniqueTaskIdentifier(tasks), now), stage)

startBackgroundTranscriptionTaskRaises(stage) ==
  StartTaskRaises(TranscriptionTaskRecord(generateUniqueTaskIdentifier(tasks), now), stage)

(***************************************************************************)
(* Stream events                                                           *)
(***************************************************************************)
CanDeliver(taskId, stream) ==
  /\ taskId \in Started
  /\ proc[taskId].phase = "running"
  /\ proc[taskId][stream] = "open"

\* readableStream.on("data") of attachStreamLineHandler
DownloadData(taskId, stream, chunk) ==
  /\ CanDeliver(taskId, stream)
  /\ IsDownload(taskId)
  /\ Commit(ProcessOutputLines(HandlerContext(taskId), taskId,
                               CompletedLines(buffers[taskId][stream], chunk), now),
            taskId, "data", NULL)
  /\ buffers' = [buffers EXCEPT ![taskId][stream] = RemainingBuffer(@, chunk)]
  /\ delivered' = delivered + 1
  /\ UNCHANGED <<now, registry, proc>>

\* childProcess.stderr.on("data") of a transcription task
TranscriptionData(taskId, chunk) ==
  /\ CanDeliver(taskId, "stderr")
  /\ ~IsDownload(taskId)
  /\ Commit(ProcessTranscriptionLines(HandlerContext(taskId), taskId,
                                      CompletedLines(buffers[taskId].stderr, chunk), now),
            taskId, "data", NULL)
  /\ buffers' = [buffers EXCEPT ![taskId].stderr = RemainingBuffer(@, chunk)]
  /\ delivered' = delivered + 1
  /\ UNCHANGED <<now, registry, proc>>

\* readableStream.on("end"): the download reader flushes its partial line,
\* the transcription reader has no `end` handler
StreamEnd(taskId, stream) ==
  /\ CanDeliver(taskId, stream)
  /\ LET ctx     == HandlerContext(taskId)
         partial == Trim(buffers[taskId][stream])
     IN  Commit(IF IsDownload(taskId) /\ partial # ""
                THEN processOutputLine(ctx, taskId, partial, now)
                ELSE ctx,
                taskId, "end", NULL)
  /\ proc' = [proc EXCEPT ![taskId][stream] = "ended"]
  /\ UNCHANGED <<now, registry, buffers, delivered>>

(***************************************************************************)
(* Process events                                                          *)
(***************************************************************************)
\* getActiveTaskRuntimeState: the entry or null
getActiveTaskRuntimeState(reg, taskId) ==
  IF taskId \in DOMAIN reg THEN Some(reg[taskId]) ELSE NULL

\* the handlers forgetting to deregister
removeActiveTaskRuntimeState_Keeps(reg, taskId) == reg

\* the removal emptying the whole map
removeActiveTaskRuntimeState_Clears(reg, taskId) == <<>>

removeActiveTaskRuntimeState(reg, taskId) ==
  [id \in (DOMAIN reg) \ {taskId} |-> reg[id]]

\* childProcess.on("error"): the spawn failed
ProcessError(taskId) ==
  /\ taskId \in Started
  /\ proc[taskId].phase = "spawn_failed"
  /\ Commit(IF IsDownload(taskId)
            THEN DownloadErrorHandler(HandlerContext(taskId), taskId, now)
            ELSE TranscriptionErrorHandler(HandlerContext(taskId), taskId, now),
            taskId, "error", NULL)
  /\ registry' = removeActiveTaskRuntimeState(registry, taskId)
  /\ proc' = [proc EXCEPT ![taskId].phase = "errored"]
  /\ UNCHANGED <<now, buffers, delivered>>

\* `close` comes after both streams have ended, or after a spawn error
CanClose(taskId, exitCode) ==
  /\ taskId \in Started
  /\ \/ /\ proc[taskId].phase = "running"
        /\ proc[taskId].stdout = "ended"
        /\ proc[taskId].stderr = "ended"
        /\ exitCode \in ExitCodes
     \/ /\ proc[taskId].phase = "errored"
        /\ exitCode = Some(SPAWN_FAILURE_EXIT_CODE)

\* childProcess.on("close")
ProcessClose(taskId, exitCode) ==
  /\ CanClose(taskId, exitCode)
  /\ Commit(IF IsDownload(taskId)
            THEN DownloadCloseHandler(HandlerContext(taskId), taskId, exitCode, now)
            ELSE TranscriptionCloseHandler(HandlerContext(taskId), taskId, exitCode, now),
            taskId, "close", exitCode)
  /\ registry' = removeActiveTaskRuntimeState(registry, taskId)
  /\ proc' = [proc EXCEPT ![taskId].phase = "closed"]
  /\ UNCHANGED <<now, buffers, delivered>>

\* time passes
Tick ==
  /\ now' = now + TickMs
  /\ UNCHANGED <<tasks, registry, writer, buffers, proc, delivered, held, applied, step>>
  /\ UNCHANGED <<storeVars, reader, parserCall>>

(***************************************************************************)
(* Specification                                                           *)
(***************************************************************************)
\* the bounds of the model: tasks started, chunks delivered, clock steps
MayStart == Len(tasks) < MaxTasks

MayDeliver == delivered < MaxChunks

MayTick == now < ClockStart + MaxTicks * TickMs

Next ==
  \/ \E spawned \in BOOLEAN : MayStart /\ startBackgroundVideoDownloadTask(spawned)
  \/ \E spawned \in BOOLEAN : MayStart /\ startBackgroundTranscriptionTask(spawned)
  \/ \E stage \in StartFailureStages :
       MayStart /\ startBackgroundVideoDownloadTaskRaises(stage)
  \/ \E stage \in StartFailureStages :
       MayStart /\ startBackgroundTranscriptionTaskRaises(stage)
  \/ \E taskId \in TaskIds, stream \in StreamNames :
       \E chunk \in DownloadChunks(stream) :
         MayDeliver /\ DownloadData(taskId, stream, chunk)
  \/ \E taskId \in TaskIds, chunk \in TranscriptionChunks :
       MayDeliver /\ TranscriptionData(taskId, chunk)
  \/ \E taskId \in TaskIds, stream \in StreamNames : StreamEnd(taskId, stream)
  \/ \E taskId \in TaskIds : ProcessError(taskId)
  \/ \E taskId \in TaskIds, exitCode \in ExitCodes \cup {Some(SPAWN_FAILURE_EXIT_CODE)} :
       ProcessClose(taskId, exitCode)
  \/ MayTick /\ Tick

Spec == Init /\ [][Next]_vars

(***************************************************************************)
(* Fair specification: every event the child process has pending is        *)
(* eventually delivered (its streams end, it reports its spawn error, it   *)
(* closes).                                                                *)
(***************************************************************************)
\* the steps by which the child moves on, told by the process state alone
StreamEnds(taskId, stream) ==
  /\ CanDeliver(taskId, stream)
  /\ proc' = [proc EXCEPT ![taskId][stream] = "ended"]

SpawnErrorReported(taskId) ==
  /\ taskId \in Started
  /\ proc[taskId].phase = "spawn_failed"
  /\ proc' = [proc EXCEPT ![taskId].phase = "errored"]

ChildCloses(taskId) ==
  /\ \E exitCode \in ExitCodes \cup {Some(SPAWN_FAILURE_EXIT_CODE)} : CanClose(taskId, exitCode)
  /\ proc' = [proc EXCEPT ![taskId].phase = "closed"]

ChildFairness ==
  \A taskId \in TaskIds :
    /\ \A stream \in StreamNames : WF_proc(StreamEnds(taskId, stream))
    /\ WF_proc(SpawnErrorReported(taskId))
    /\ WF_proc(ChildCloses(taskId))

FairSpec == Init /\ [][Next]_vars /\ ChildFairness

(***************************************************************************)
(* Two tasks in flight at the same time: the same handlers, with any       *)
(* interleaving of the events of the two children, every pending event     *)
(* eventually delivered.                                                   *)
(***************************************************************************)
\* number of StartTask calls and of `data` events in the concurrent runs
ConcurrentTasks == 2

ConcurrentChunks == 2

ConcurrentTaskIds == 1..ConcurrentTasks

ConcurrentNext ==
  \/ \E spawned \in BOOLEAN :
       Len(tasks) < ConcurrentTasks /\ startBackgroundVideoDownloadTask(spawned)
  \/ \E spawned \in BOOLEAN :
       Len(tasks) < ConcurrentTasks /\ startBackgroundTranscriptionTask(spawned)
  \/ \E taskId \in ConcurrentTaskIds, stream \in StreamNames :
       \E chunk \in DownloadChunks(stream) :
         delivered < ConcurrentChunks /\ DownloadData(taskId, stream, chunk)
  \/ \E taskId \in ConcurrentTaskIds, chunk \in TranscriptionChunks :
       delivered < ConcurrentChunks /\ TranscriptionData(taskId, chunk)
  \/ \E taskId \in ConcurrentTaskIds, stream \in StreamNames : StreamEnd(taskId, stream)
  \/ \E taskId \in ConcurrentTaskIds : ProcessError(taskId)
  \/ \E taskId \in ConcurrentTaskIds,
        exitCode \in ExitCodes \cup {Some(SPAWN_FAILURE_EXIT_CODE)} :
       ProcessClose(taskId, exitCode)

ConcurrentFairness ==
  \A taskId \in ConcurrentTaskIds :
    /\ \A stream \in StreamNames : WF_proc(StreamEnds(taskId, stream))
    /\ WF_proc(SpawnErrorReported(taskId))
    /\ WF_proc(ChildCloses(taskId))

ConcurrentSpec == Init /\ [][ConcurrentNext]_vars /\ ConcurrentFairness

(***************************************************************************)
(* The store module with its backing file, called by several processes.    *)
(* The text of the file is [kind, fields]: what JSON.stringify wrote for a *)
(* database, or one of the texts a damaged or foreign file can hold.       *)
(***************************************************************************)
\* number of records inserted in a run of the store
MaxRecords == 2

\* number of calls of the store module in a run
MaxStoreCalls == 3

RecordIds == 1..MaxRecords

\* EMPTY_TASK_DATABASE_STRUCTURE
EmptyDatabase == [tasks |-> <<>>]

\* the fields of a TaskRecord that always hold a string or a number
ScalarFields == {"id", "type", "status", "percentage", "created_at", "updated_at"}

\* object[key] === undefined
IsUndefined(object, key) == key \notin ScalarFields /\ object[key] = UNDEFINED

\* what JSON.stringify writes for an object: a property whose value is
\* undefined is left out
SerializedObject(object) ==
  [key \in {k \in DOMAIN object : ~IsUndefined(object, k)} |-> object[key]]

\* JSON.stringify(databaseContents, null, 2)
JsonStringify(databaseContents) ==
  [kind   |-> "database",
   fields |-> [databaseContents EXCEPT
                 !.tasks = [i \in DOMAIN @ |-> SerializedObject(@[i])]]]

\* a parse that takes whatever the file holds for the one record of the list
ParsedDatabase_KeepsDamaged(rawFileContents) ==
  IF rawFileContents.kind = "database" THEN rawFileContents.fields
  ELSE [tasks |-> <<rawFileContents.fields>>]

\* a load that marks the tasks a stopped process left unfinished as failed
ParsedDatabase_FailsUnfinished(rawFileContents) ==
  IF rawFileContents.kind = "database"
  THEN [rawFileContents.fields EXCEPT
          !.tasks = [i \in DOMAIN @ |->
                       IF @[i].status \in TerminalStatuses THEN @[i]
                       ELSE [@[i] EXCEPT !.status = "failed"]]]
  ELSE [tasks |-> <<>>]

\* lines 69-80: what the file's text becomes in the cache
ParsedDatabase(rawFileContents) ==
  CASE rawFileContents.kind = "database" -> rawFileContents.fields
    [] rawFileContents.kind = "object_without_tasks" ->
         Spread(rawFileContents.fields, [tasks |-> <<>>])
    [] rawFileContents.kind = "not_an_object" -> [tasks |-> <<>>]
    [] OTHER -> [tasks |-> <<>>]

\* the file at the start of a run: missing, damaged, foreign, or a database
\* left by an earlier run
InitialFiles ==
  {NULL,
   Some([kind |-> "not_json", fields |-> EmptyObject]),
   Some([kind |-> "not_an_object", fields |-> EmptyObject]),
   Some([kind |-> "object_without_tasks", fields |-> [version |-> 1]]),
   Some(JsonStringify([tasks |-> <<DownloadTaskRecord(MaxRecords, ClockStart)>>]))}

\* a load that reads the file on every call
loadTaskDatabaseFromDisk_Rereads(cachedDatabaseContents, file) ==
  IF file = NULL
  THEN [cache |-> Some([tasks |-> <<>>]), disk |-> Some(JsonStringify(EmptyDatabase))]
  ELSE [cache |-> Some(ParsedDatabase(file[1])), disk |-> file]

\* loadTaskDatabaseFromDisk: the cache and the file afterwards
loadTaskDatabaseFromDisk(cachedDatabaseContents, file) ==
  IF cachedDatabaseContents # NULL
  THEN [cache |-> cachedDatabaseContents, disk |-> file]
  ELSE IF file = NULL
  THEN [cache |-> Some([tasks |-> <<>>]), disk |-> Some(JsonStringify(EmptyDatabase))]
  ELSE [cache |-> Some(ParsedDatabase(file[1])), disk |-> file]

\* a write that puts only the newest record into the file
persistTaskDatabaseToDisk_WritesLastRecord(databaseContents) ==
  [cache |-> Some(databaseContents),
   disk  |-> Some(JsonStringify([databaseContents EXCEPT
                                   !.tasks = SubSeq(@, Len(@), Len(@))]))]

\* persistTaskDatabaseToDisk: the cache and the file afterwards
persistTaskDatabaseToDisk(databaseContents) ==
  [cache |-> Some(databaseContents), disk |-> Some(JsonStringify(databaseContents))]

\* the records a process sees: database.tasks after loadTaskDatabaseFromDisk
Collection(instance) ==
  loadTaskDatabaseFromDisk(caches[instance], disk).cache[1].tasks

\* ids no process and no file has a record for
FreshIds ==
  {taskId \in RecordIds :
     /\ \A instance \in Instances : TaskIndex(Collection(instance), taskId) = 0
     /\ TaskIndex(loadTaskDatabaseFromDisk(NULL, disk).cache[1].tasks, taskId) = 0}

\* the time stamp of a patch that names updated_at itself
StaleStamp == 0

\* the patches the services pass to updateExistingTaskRecord, and one of a
\* caller that finishes the task and names updated_at in its patch
StorePatches(taskId) ==
  {RunningPatch(ChildPid(taskId, TRUE)),
   RunningPatch(ChildPid(taskId, FALSE)),
   [status |-> "downloading", percentage |-> 500, speed |-> Some("2MiB/s")],
   [status |-> "failed", finished_at |-> Some(now), updated_at |-> StaleStamp]}

\* a list call that hands out the stored array itself
retrieveAllTaskRecords_ReturnsStored(databaseTasks) ==
  [elements |-> databaseTasks, stored |-> TRUE]

\* retrieveAllTaskRecords: database.tasks.slice(), a new array of the same
\* records (stored: whether the array is the one the cache holds)
retrieveAllTaskRecords(databaseTasks) ==
  [elements |-> databaseTasks, stored |-> FALSE]

\* retrieveAllTaskRecords
RetrieveAllCall(instance) ==
  LET loaded == loadTaskDatabaseFromDisk(caches[instance], disk)
  IN  /\ caches' = [caches EXCEPT ![instance] = loaded.cache]
      /\ disk' = loaded.disk
      /\ storeStep' = [op |-> "retrieve_all", instance |-> instance, id |-> 0,
                       result |-> Some(retrieveAllTaskRecords(loaded.cache[1].tasks).elements),
                       count |-> storeStep.count + 1]
      /\ UNCHANGED <<vars, reader, parserCall>>

\* findTaskRecordById
FindCall(instance, taskId) ==
  LET loaded == loadTaskDatabaseFromDisk(caches[instance], disk)
  IN  /\ caches' = [caches EXCEPT ![instance] = loaded.cache]
      /\ disk' = loaded.disk
      /\ storeStep' = [op |-> "find", instance |-> instance, id |-> taskId,
                       result |-> findTaskRecordById(loaded.cache[1].tasks, taskId),
                       count |-> storeStep.count + 1]
      /\ UNCHANGED <<vars, reader, parserCall>>

\* insertNewTaskRecord
InsertCall(instance, taskRecord) ==
  LET loaded   == loadTaskDatabaseFromDisk(caches[instance], disk)
      database == loaded.cache[1]
      saved    == persistTaskDatabaseToDisk(
                    [database EXCEPT !.tasks = insertNewTaskRecord(@, taskRecord)])
  IN  /\ caches' = [caches EXCEPT ![instance] = saved.cache]
      /\ disk' = saved.disk
      /\ storeStep' = [op |-> "insert", instance |-> instance, id |-> taskRecord.id,
                       result |-> Some(taskRecord), count |-> storeStep.count + 1]
      /\ UNCHANGED <<vars, reader, parserCall>>

\* updateExistingTaskRecord
UpdateCall(instance, taskId, patchFields) ==
  LET loaded   == loadTaskDatabaseFromDisk(caches[instance], disk)
      database == loaded.cache[1]
      outcome  == updateExistingTaskRecord(database.tasks, taskId, patchFields, now)
      saved    == persistTaskDatabaseToDisk([database EXCEPT !.tasks = outcome.tasks])
  IN  /\ caches' = [caches EXCEPT ![instance] =
                      IF outcome.result = NULL THEN loaded.cache ELSE saved.cache]
      /\ disk' = IF outcome.result = NULL THEN loaded.disk ELSE saved.disk
      /\ storeStep' = [op |-> "update", instance |-> instance, id |-> taskId,
                       result |-> outcome.result, count |-> storeStep.count + 1]
      /\ UNCHANGED <<vars, reader, parserCall>>

(***************************************************************************)
(* The task-history handler.  Array.filter and Array.slice make a new      *)
(* array; Array.sort and Array.reverse change the array they are called    *)
(* on.                                                                     *)
(***************************************************************************)
RECURSIVE InsertByCreatedAt(_, _)
\* the place of one record in a list sorted by created_at (the sort is stable)
InsertByCreatedAt(sorted, task) ==
  IF sorted = <<>> THEN <<task>>
  ELSE IF sorted[Len(sorted)].created_at <= task.created_at THEN Append(sorted, task)
  ELSE Append(InsertByCreatedAt(SubSeq(sorted, 1, Len(sorted) - 1), task),
              sorted[Len(sorted)])

RECURSIVE SortByCreatedAt(_)
\* taskRecords.sort(...) by created_at, oldest first
SortByCreatedAt(taskRecords) ==
  IF taskRecords = <<>> THEN <<>>
  ELSE InsertByCreatedAt(SortByCreatedAt(SubSeq(taskRecords, 1, Len(taskRecords) - 1)),
                         taskRecords[Len(taskRecords)])

\* taskRecords.reverse()
Reverse(taskRecords) ==
  [i \in 1..Len(taskRecords) |-> taskRecords[Len(taskRecords) + 1 - i]]

\* a slice that ignores where to start
Slice_IgnoresStart(taskRecords, start, end) ==
  SubSeq(taskRecords, 1, IF end < Len(taskRecords) THEN end ELSE Len(taskRecords))

\* taskRecords.slice(start, end)
Slice(taskRecords, start, end) ==
  SubSeq(taskRecords, start + 1, IF end < Len(taskRecords) THEN end ELSE Len(taskRecords))

\* one element of taskSummaries
TaskSummary(task) ==
  Spread(Spread([id |-> task.id, type |-> task.type, status |-> task.status,
                 created_at |-> task.created_at, finished_at |-> task.finished_at],
                IF task.type = "download"
                THEN [file_name |-> task.file_name, file_path |-> task.file_path]
                ELSE EmptyObject),
         IF task.error # NULL THEN [error |-> task.error] ELSE EmptyObject)

\* the arguments of the tool: filters and order as trimmed lower-case text
\* ("" when omitted), limit and offset as numbers in tenths (15 is 1.5; NULL
\* when omitted or not a finite number)
HistoryArguments ==
  {[type |-> "", status |-> "", order |-> "", limit |-> NULL, offset |-> NULL],
   [type |-> "download", status |-> "", order |-> "asc", limit |-> Some(10), offset |-> Some(10)],
   [type |-> "", status |-> "running", order |-> "desc", limit |-> Some(0), offset |-> NULL]}

\* Math.floor of a number given in tenths
Floor(tenths) == tenths \div 10

\* handler of youtube_task_history: its result and the array of the cache
\* after it
TaskHistory(databaseTasks, args) ==
  LET requestedLimit  == IF args.limit = NULL THEN 500 ELSE args.limit[1]
      requestedOffset == IF args.offset = NULL THEN 0 ELSE args.offset[1]
      clampedLimit    == IF Floor(requestedLimit) < 200 THEN Floor(requestedLimit) ELSE 200
      clampedOffset   == Floor(requestedOffset)
      sortOrder       == IF args.order = "" THEN "desc" ELSE args.order
      listed          == retrieveAllTaskRecords(databaseTasks)
      HasType(task)   == task.type = args.type
      HasStatus(task) == task.status = args.status
      byType   == IF args.type # ""
                  THEN [elements |-> SelectSeq(listed.elements, HasType), stored |-> FALSE]
                  ELSE listed
      byStatus == IF args.status # ""
                  THEN [elements |-> SelectSeq(byType.elements, HasStatus), stored |-> FALSE]
                  ELSE byType
      sorted   == SortByCreatedAt(byStatus.elements)
      ordered  == IF sortOrder # "asc" THEN Reverse(sorted) ELSE sorted
      page     == Slice(ordered, clampedOffset, clampedOffset + clampedLimit)
  IN  IF requestedLimit < 10
      THEN [result |-> [success |-> FALSE, message |-> "limit must be >= 1."],
            tasks  |-> databaseTasks]
      ELSE IF requestedOffset < 0
      THEN [result |-> [success |-> FALSE, message |-> "offset must be >= 0."],
            tasks  |-> databaseTasks]
      ELSE [result |-> [success |-> TRUE, total |-> Len(ordered),
                        offset |-> clampedOffset, limit |-> clampedLimit,
                        tasks |-> [i \in 1..Len(page) |-> TaskSummary(page[i])]],
            tasks  |-> IF byStatus.stored THEN ordered ELSE databaseTasks]

\* a call of the youtube_task_history tool
TaskHistoryCall(instance, args) ==
  LET loaded   == loadTaskDatabaseFromDisk(caches[instance], disk)
      database == loaded.cache[1]
      outcome  == TaskHistory(database.tasks, args)
  IN  /\ caches' = [caches EXCEPT ![instance] = Some([database EXCEPT !.tasks = outcome.tasks])]
      /\ disk' = loaded.disk
      /\ storeStep' = [op |-> "task_history", instance |-> instance, id |-> 0,
                       result |-> Some(outcome.result), count |-> storeStep.count + 1]
      /\ UNCHANGED <<vars, reader, parserCall>>

\* the process ends and a new one loads the module: cachedDatabaseContents = null
Restart(instance) ==
  /\ caches[instance] # NULL
  /\ caches' = [caches EXCEPT ![instance] = NULL]
  /\ storeStep' = [op |-> "restart", instance |-> instance, id |-> 0,
                   result |-> NULL, count |-> storeStep.count + 1]
  /\ UNCHANGED <<vars, disk, reader, parserCall>>

StoreInit ==
  /\ NothingStarted
  /\ disk \in InitialFiles
  /\ StoreUntouched
  /\ ReaderIdle
  /\ ParserIdle

MayCall == storeStep.count < MaxStoreCalls

StoreNext ==
  \/ \E instance \in Instances : MayCall /\ RetrieveAllCall(instance)
  \/ \E instance \in Instances, taskId \in RecordIds :
       MayCall /\ FindCall(instance, taskId)
  \/ \E instance \in Instances, taskId \in FreshIds :
       MayCall /\ InsertCall(instance, DownloadTaskRecord(taskId, now))
  \/ \E instance \in Instances, taskId \in RecordIds :
       \E patchFields \in StorePatches(taskId) :
         MayCall /\ UpdateCall(instance, taskId, patchFields)
  \/ \E instance \in Instances : MayCall /\ Restart(instance)
  \/ MayTick /\ Tick

StoreSpec == StoreInit /\ [][StoreNext]_<<vars, storeVars>>

(***************************************************************************)
(* The store module with one process as its only owner, as the design      *)
(* assumes: the same operations, all issued by the one process.            *)
(***************************************************************************)
\* number of calls of the store module in a run of the single owner
MaxOwnerCalls == 4

Owner == 1

MayOwnerCall == storeStep.count < MaxOwnerCalls

OwnerNext ==
  \/ MayOwnerCall /\ RetrieveAllCall(Owner)
  \/ \E taskId \in RecordIds : MayOwnerCall /\ FindCall(Owner, taskId)
  \/ \E taskId \in FreshIds : MayOwnerCall /\ InsertCall(Owner, DownloadTaskRecord(taskId, now))
  \/ \E taskId \in RecordIds :
       \E patchFields \in StorePatches(taskId) :
         MayOwnerCall /\ UpdateCall(Owner, taskId, patchFields)
  \/ \E args \in HistoryArguments : MayOwnerCall /\ TaskHistoryCall(Owner, args)
  \/ MayOwnerCall /\ Restart(Owner)
  \/ MayTick /\ Tick

OwnerSpec == StoreInit /\ [][OwnerNext]_<<vars, storeVars>>

(***************************************************************************)
(* The task-history tool over the records the two services insert and      *)
(* update, in the one process.                                             *)
(***************************************************************************)
\* calls of youtube_task_history: the three of HistoryArguments, and limits
\* and offsets that have a fraction, exceed the maximum, or are negative
HistoryRequests ==
  HistoryArguments \cup
  {[type |-> "", status |-> "", order |-> "", limit |-> Some(15), offset |-> NULL],
   [type |-> "", status |-> "", order |-> "asc", limit |-> Some(5), offset |-> NULL],
   [type |-> "", status |-> "", order |-> "desc", limit |-> Some(2500), offset |-> Some(0)],
   [type |-> "", status |-> "", order |-> "", limit |-> NULL, offset |-> Some(15)],
   [type |-> "", status |-> "", order |-> "", limit |-> NULL, offset |-> Some(-5)],
   [type |-> "transcription", status |-> "starting", order |-> "", limit |-> Some(10),
    offset |-> NULL]}

HistoryNext ==
  \/ \E taskId \in FreshIds : MayOwnerCall /\ InsertCall(Owner, DownloadTaskRecord(taskId, now))
  \/ \E taskId \in FreshIds :
       MayOwnerCall /\ InsertCall(Owner, TranscriptionTaskRecord(taskId, now))
  \/ \E taskId \in RecordIds :
       \E patchFields \in StorePatches(taskId) :
         MayOwnerCall /\ UpdateCall(Owner, taskId, patchFields)
  \/ \E args \in HistoryRequests : MayOwnerCall /\ TaskHistoryCall(Owner, args)
  \/ MayTick /\ Tick

HistorySpec == StoreInit /\ [][HistoryNext]_<<vars, storeVars>>

(***************************************************************************)
(* One output stream of a download task, byte by byte.  The stream is not  *)
(* given an encoding, so every `data` event carries a Buffer, and the      *)
(* handler decodes each one by itself with chunk.toString() (UTF-8): a     *)
(* byte sequence that is not a complete character inside the chunk becomes *)
(* U+FFFD.  Bytes are numbers; "E" stands for the two-byte character and   *)
(* "?" for U+FFFD.                                                         *)
(***************************************************************************)
\* number of characters the child writes to the stream
MaxStreamChars == 3

\* the bytes of the one-byte characters a, line feed and carriage return
AsciiChar == (97 :> "a") @@ (10 :> "\n") @@ (13 :> "\r")

\* the UTF-8 bytes of a two-byte character (C3 A9)
TwoByteCharacter == <<195, 169>>

\* the characters of the child's output, as UTF-8 bytes
EncodedCharacters == {<<byte>> : byte \in DOMAIN AsciiChar} \cup {TwoByteCharacter}

RECURSIVE EncodedTexts(_)
\* the valid UTF-8 texts of a number of characters
EncodedTexts(length) ==
  IF length = 0 THEN {<<>>}
  ELSE {character \o text : character \in EncodedCharacters,
                             text \in EncodedTexts(length - 1)}

\* what the child writes to a stream before it closes it
StreamContents == UNION {EncodedTexts(length) : length \in 1..MaxStreamChars}

RECURSIVE BufferToString(_)
\* chunk.toString()
BufferToString(chunk) ==
  IF chunk = <<>> THEN ""
  ELSE IF Head(chunk) \in DOMAIN AsciiChar
  THEN AsciiChar[Head(chunk)] \o BufferToString(Tail(chunk))
  ELSE IF /\ Head(chunk) = TwoByteCharacter[1]
          /\ Len(chunk) >= 2
          /\ chunk[2] = TwoByteCharacter[2]
  THEN "E" \o BufferToString(SubSeq(chunk, 3, Len(chunk)))
  ELSE "?" \o BufferToString(Tail(chunk))

\* the lines that get past `if (!line) return` of processOutputLine
LinesForParser(lines) ==
  LET NotEmpty(line) == line # ""
  IN  SelectSeq(lines, NotEmpty)

\* what the `end` handler hands over: the trimmed rest, when not empty
FlushedLines(incompleteLineBuffer) ==
  LinesForParser(<<Trim(incompleteLineBuffer)>>)

\* readableStream.on("data") for a chunk of the next `size` bytes
ReaderData(size) ==
  LET chunk == SubSeq(reader.unread, 1, size)
      text  == BufferToString(chunk)
  IN  /\ ~reader.ended
      /\ size \in 1..Len(reader.unread)
      /\ reader' = [reader EXCEPT
            !.unread = SubSeq(@, size + 1, Len(@)),
            !.handed = @ \o LinesForParser(CompletedLines(reader.incompleteLineBuffer, text)),
            !.incompleteLineBuffer = RemainingBuffer(@, text)]
      /\ UNCHANGED <<vars, storeVars, parserCall>>

\* readableStream.on("end")
ReaderEnd ==
  /\ ~reader.ended
  /\ reader.unread = <<>>
  /\ reader' = [reader EXCEPT
        !.handed = @ \o FlushedLines(reader.incompleteLineBuffer),
        !.ended  = TRUE]
  /\ UNCHANGED <<vars, storeVars, parserCall>>

ReaderInit ==
  /\ NothingStarted
  /\ disk = NULL
  /\ StoreUntouched
  /\ ParserIdle
  /\ \E content \in StreamContents :
       reader = [NoReader EXCEPT !.content = content, !.unread = content]

ReaderNext ==
  \/ \E size \in 1..(2 * MaxStreamChars) : ReaderData(size)
  \/ ReaderEnd

ReaderSpec == ReaderInit /\ [][ReaderNext]_<<vars, storeVars, reader>>

(***************************************************************************)
(* parseYtDlpProgressOutputLine on lines put together from pieces of       *)
(* yt-dlp output                                                           *)
(***************************************************************************)
MaxLinePieces == 3

\* pieces of yt-dlp output lines
LinePieces ==
  {"[download]  ", "50.0%", "75.0%", "99.96%of", " ETA 00:10", " at 2MiB/s",
   "ERROR: ", "WARNING: HTTP Error: 429", "Destination: out/a.mp4", "hello",
   " has already been downloaded"}

RECURSIVE Concatenated(_)
Concatenated(pieces) ==
  IF pieces = <<>> THEN "" ELSE Head(pieces) \o Concatenated(Tail(pieces))

\* the lines handed to the parser
OutputLines ==
  { Concatenated(pieces) :
      pieces \in UNION { [1..n -> LinePieces] : n \in 1..MaxLinePieces } }

\* const progressPatch = parseYtDlpProgressOutputLine(line)
ParseLine ==
  /\ parserCall.patch = NULL
  /\ parserCall' = [parserCall EXCEPT
        !.patch = Some(parseYtDlpProgressOutputLine(parserCall.line))]
  /\ UNCHANGED <<vars, storeVars, reader>>

ParserInit ==
  /\ NothingStarted
  /\ disk = NULL
  /\ StoreUntouched
  /\ ReaderIdle
  /\ \E line \in OutputLines : parserCall = [NoParse EXCEPT !.line = line]

ParserNext == ParseLine

ParserSpec == ParserInit /\ [][ParserNext]_<<vars, storeVars, reader, parserCall>>

(***************************************************************************)
(* The service across a restart of its process.  The process that started  *)
(* a task stops (its registry, its writers and its handlers are gone with  *)
(* it); a new process loads the store from the file, which holds what the  *)
(* last store write of the old process put there, and starts tasks of its  *)
(* own.  One task is started in each life of the service.                  *)
(***************************************************************************)
\* a task is left from a process that has stopped
Restarted == \E taskId \in Started : proc[taskId].phase = "lost"

\* the owning process stops and a new one loads the module and the file
ServiceRestart ==
  /\ Started # {}
  /\ ~Restarted
  /\ tasks' = loadTaskDatabaseFromDisk(
                NULL, Some(JsonStringify([tasks |-> tasks]))).cache[1].tasks
  /\ registry' = <<>>
  /\ writer' = <<>>
  /\ buffers' = <<>>
  /\ held' = <<>>
  /\ applied' = <<>>
  /\ proc' = [taskId \in DOMAIN proc |-> [proc[taskId] EXCEPT !.phase = "lost"]]
  /\ step' = [task |-> 0, event |-> "restart", exitCode |-> NULL,
              calls |-> <<>>, writes |-> <<>>]
  /\ UNCHANGED <<now, delivered>>
  /\ UNCHANGED <<storeVars, reader, parserCall>>

MayStartInThisLife ==
  IF Restarted THEN Len(tasks) < ConcurrentTasks ELSE Len(tasks) < MaxTasks

RestartNext ==
  \/ \E spawned \in BOOLEAN :
       MayStartInThisLife /\ startBackgroundVideoDownloadTask(spawned)
  \/ \E spawned \in BOOLEAN :
       MayStartInThisLife /\ startBackgroundTranscriptionTask(spawned)
  \/ \E taskId \in ConcurrentTaskIds, stream \in StreamNames :
       \E chunk \in DownloadChunks(stream) :
         delivered < ConcurrentChunks /\ DownloadData(taskId, stream, chunk)
  \/ \E taskId \in ConcurrentTaskIds, chunk \in TranscriptionChunks :
       delivered < ConcurrentChunks /\ TranscriptionData(taskId, chunk)
  \/ \E taskId \in ConcurrentTaskIds, stream \in StreamNames : StreamEnd(taskId, stream)
  \/ \E taskId \in ConcurrentTaskIds : ProcessError(taskId)
  \/ \E taskId \in ConcurrentTaskIds,
        exitCode \in ExitCodes \cup {Some(SPAWN_FAILURE_EXIT_CODE)} :
       ProcessClose(taskId, exitCode)
  \/ ServiceRestart
  \/ MayTick /\ Tick

RestartSpec == Init /\ [][RestartNext]_vars

(***************************************************************************)
(* Vocabulary of the properties                                            *)
(***************************************************************************)
\* the persisted states of a task across one step: the record before it and
\* every record the handler of that step wrote, in order
PersistedTrail(taskId) ==
  <<Rec(taskId)>> \o (IF now' = now /\ step'.task = taskId THEN step'.writes ELSE <<>>)

\* every persisted state there is to see now: the store and the last writes
PersistedNow == {tasks[i] : i \in DOMAIN tasks} \cup {step.writes[i] : i \in DOMAIN step.writes}

SetsTerminalStatus(patch) == Has(patch, "status") /\ IsTerminal(patch.status)

\* merge of a sequence of patches in arrival order: each field has the value
\* of the last patch that sets it
MergeAll(patches) ==
  [f \in UNION {DOMAIN patches[i] : i \in DOMAIN patches} |->
     patches[SetMax({i \in DOMAIN patches : Has(patches[i], f)})][f]]

(***************************************************************************)
(* C1: once the persisted status of a task is `completed` or `failed`, no  *)
(* later event of that task (output line, error handler, exit handler)     *)
(* makes the persisted status non-terminal.                                *)
(***************************************************************************)
C1_TerminalStatusNeverLeft ==
  [][\A taskId \in Started :
       LET trail == PersistedTrail(taskId)
       IN  \A i, j \in DOMAIN trail :
             (i < j /\ IsTerminal(trail[i].status)) => IsTerminal(trail[j].status)]_vars

(***************************************************************************)
(* C2: when the exit handler fires with exit code 0 and the persisted      *)
(* status is already `failed`, the status stays `failed`.                  *)
(***************************************************************************)
C2_ExitZeroKeepsFailed ==
  [][\A taskId \in Started :
       (ProcessClose(taskId, Some(0)) /\ Rec(taskId).status = "failed")
         => (Rec(taskId).status = "failed")']_vars

(***************************************************************************)
(* C3: when an output line has made the persisted status `completed`, the  *)
(* exit handler firing afterwards (exit code 0 or not) leaves it           *)
(* `completed`.                                                            *)
(***************************************************************************)
C3_ExitKeepsCompleted ==
  [][\A taskId \in Started : \A exitCode \in ExitCodes :
       (ProcessClose(taskId, exitCode) /\ Rec(taskId).status = "completed")
         => (Rec(taskId).status = "completed")']_vars

(***************************************************************************)
(* C4: every task whose record was inserted eventually has a persisted     *)
(* terminal status, whatever the child printed, provided the child's       *)
(* pending events (stream ends, spawn error, close) are delivered.         *)
(* Checked under FairSpec.                                                 *)
(***************************************************************************)
C4_EveryTaskReachesTerminal ==
  \A taskId \in TaskIds :
    (taskId \in Started) ~> (taskId \in Started /\ IsTerminal(Rec(taskId).status))

\* a task that received output has closed and its record is terminal
C4_Witness ==
  \E taskId \in Started :
    /\ proc[taskId].phase = "closed"
    /\ delivered > 0
    /\ IsTerminal(Rec(taskId).status)

(***************************************************************************)
(* C5: in every persisted state of every record, finished_at is non-null   *)
(* if and only if status is `completed` or `failed`.                       *)
(***************************************************************************)
C5_FinishedAtIffTerminal ==
  \A record \in PersistedNow :
    (record.finished_at # NULL) <=> IsTerminal(record.status)

(***************************************************************************)
(* C6: every patch that sets status to `completed` or `failed` is applied  *)
(* with forced flush and written to the store by the call that receives    *)
(* it, never held in the accumulator.                                      *)
(***************************************************************************)
C6_TerminalPatchesAreForced ==
  \A i \in DOMAIN step.calls :
    SetsTerminalStatus(step.calls[i].patch)
      => (step.calls[i].force /\ step.calls[i].wrote)

(***************************************************************************)
(* C7: for a download task, a call of the writer updates the store in the  *)
(* same call if and only if it is forced or at least 1000 ms have passed   *)
(* since the task's previous write (0 before the first write, so the first *)
(* patch is always written); otherwise nothing is written and the patch    *)
(* is kept in the accumulator.                                             *)
(***************************************************************************)
C7_WriteIffForcedOrIntervalElapsed ==
  /\ \A i \in DOMAIN step.calls :
       LET call == step.calls[i]
       IN  /\ call.wrote <=> (call.force \/ call.time - call.last >= 1000)
           /\ (call.last = 0) => call.wrote
           /\ ~call.wrote =>
                \A f \in DOMAIN call.patch :
                  Has(call.pendingAfter, f) /\ call.pendingAfter[f] = call.patch[f]
  /\ (step.event # "start" /\ step.task \in DOMAIN writer) =>
       Len(step.writes) = Cardinality({i \in DOMAIN step.calls : step.calls[i].wrote})

\* one handler made an unforced call that wrote because the interval had
\* elapsed since an earlier write, and a second unforced call that was held
C7_Witness ==
  \E i, j \in DOMAIN step.calls :
    /\ i < j
    /\ ~step.calls[i].force /\ step.calls[i].wrote /\ step.calls[i].last > 0
    /\ ~step.calls[j].force /\ ~step.calls[j].wrote

(***************************************************************************)
(* C8: whenever a write happens the patch written is the merge, in arrival *)
(* order, of all patches held since the previous write, and the            *)
(* accumulator is then empty; so after a write each persisted field equals *)
(* the value of the most recent patch that set it.                         *)
(***************************************************************************)
C8_WritesMergeHeldPatchesInOrder ==
  /\ \A i \in DOMAIN step.calls :
       LET call == step.calls[i]
       IN  call.wrote => /\ call.written = Some(MergeAll(call.held))
                         /\ call.pendingAfter = NULL
  /\ \A taskId \in DOMAIN writer :
       /\ writer[taskId].pending = MergeAll(held[taskId])
       /\ (held[taskId] = <<>>) =>
            \A f \in DOMAIN applied[taskId] : Rec(taskId)[f] = applied[taskId][f]

\* a write merged two held patches of which the later overrode a field of the earlier
C8_Witness ==
  \E i \in DOMAIN step.calls :
    LET call == step.calls[i]
    IN  /\ call.wrote
        /\ Len(call.held) >= 2
        /\ \E f \in DOMAIN call.held[1] :
             /\ Has(call.held[2], f)
             /\ call.held[1][f] # call.held[2][f]
             /\ Rec(step.task)[f] # call.held[1][f]

(***************************************************************************)
(* C9: across the successive persisted states of one task, percentage      *)
(* never decreases.                                                        *)
(***************************************************************************)
C9_PercentageNeverDecreases ==
  [][\A taskId \in Started :
       LET trail == PersistedTrail(taskId)
       IN  \A i, j \in DOMAIN trail :
             (i < j) => trail[i].percentage <= trail[j].percentage]_vars

(***************************************************************************)
(* C10: in every persisted state of every record, percentage is exactly    *)
(* 100 if and only if status is `completed`.                               *)
(***************************************************************************)
C10_HundredIffCompleted ==
  \A record \in PersistedNow :
    (record.percentage = 1000) <=> (record.status = "completed")

(***************************************************************************)
(* C11: in every persisted state of every record, percentage is a number   *)
(* between 0 and 100 inclusive, whatever line the download tool prints and *)
(* whatever JSON payload the transcription tool prints (a progress value   *)
(* outside [0,1] included).                                                *)
(***************************************************************************)
C11_PercentageWithinRange ==
  \A record \in PersistedNow :
    record.percentage >= 0 /\ record.percentage <= 1000

(***************************************************************************)
(* C12: in every persisted state of every record, error is non-null only   *)
(* if status is `failed`.                                                  *)
(***************************************************************************)
C12_ErrorOnlyWhenFailed ==
  \A record \in PersistedNow :
    (record.error # NULL) => (record.status = "failed")

(***************************************************************************)
(* C14: when StartTask returns a task id, FindById(id) returns a record    *)
(* whose status is `running`: the record was inserted with status          *)
(* `starting`, then updated to `running`, and no output, error or exit     *)
(* event of the task was handled before the return.                        *)
(***************************************************************************)
C14_StartReturnsRunning ==
  (step.event = "start") =>
    LET found == findTaskRecordById(tasks, step.task)
    IN  /\ found # NULL
        /\ found[1].status = "running"
        /\ Len(step.writes) = 2
        /\ step.writes[1].status = "starting"
        /\ step.writes[2] = found[1]
        /\ step.task \in DOMAIN registry
        /\ proc[step.task].phase \in {"running", "spawn_failed"}
        /\ \A stream \in StreamNames :
             proc[step.task][stream] = "open" /\ buffers[step.task][stream] = ""
        /\ step.calls = <<>> /\ held[step.task] = <<>>

\* StartTask has returned for a child whose spawn will fail
C14_Witness ==
  /\ step.event = "start"
  /\ proc[step.task].phase = "spawn_failed"
  /\ Rec(step.task).status = "running"

C16_SpawnErrorMarksFailed ==
  [][\A taskId \in Started :
       /\ ProcessError(taskId) =>
            /\ step'.writes # <<>>
            /\ step'.writes[Len(step'.writes)] = Rec(taskId)'
            /\ Rec(taskId)'.status = "failed"
            /\ Rec(taskId)'.error = Some(SpawnErrorMessage)
            /\ getActiveTaskRuntimeState(registry', taskId) = NULL
       /\ (proc[taskId].phase \in {"errored", "closed"}) =>
            proc'[taskId].phase \in {"errored", "closed"}
       /\ (proc[taskId].phase = "errored"
             /\ ProcessClose(taskId, Some(SPAWN_FAILURE_EXIT_CODE))) =>
            /\ Rec(taskId)'.status = "failed"
            /\ Rec(taskId)'.error = Some(SpawnErrorMessage)]_vars

\* the close event has followed the spawn error of a task
C16_Witness ==
  /\ step.event = "close"
  /\ step.exitCode = Some(SPAWN_FAILURE_EXIT_CODE)
  /\ Rec(step.task).status = "failed"
  /\ Rec(step.task).error = Some(SpawnErrorMessage)

(***************************************************************************)
(* C17: when the process-exit handler fires with a non-zero exit code and  *)
(* the persisted status is not terminal, the record is written in that     *)
(* step (forced flush, nothing left in the accumulator) with status        *)
(* `failed`, exit_code equal to the code and finished_at set.              *)
(***************************************************************************)
C17_NonZeroExitMarksFailed ==
  [][\A taskId \in Started :
       \A exitCode \in ExitCodes \cup {Some(SPAWN_FAILURE_EXIT_CODE)} :
         (/\ exitCode # Some(0)
          /\ ~IsTerminal(Rec(taskId).status)
          /\ ProcessClose(taskId, exitCode)) =>
            /\ step'.writes # <<>>
            /\ step'.writes[Len(step'.writes)] = Rec(taskId)'
            /\ Rec(taskId)'.status = "failed"
            /\ Has(Rec(taskId)', "exit_code")
            /\ Rec(taskId)'.exit_code = exitCode
            /\ Rec(taskId)'.finished_at = Some(now)
            /\ (taskId \in DOMAIN writer) => (writer'[taskId].pending = NULL)]_vars

\* a task that produced output and recorded no failure closed with exit code 1
C17_Witness ==
  /\ step.event = "close"
  /\ step.exitCode = Some(1)
  /\ delivered > 0
  /\ Rec(step.task).status = "failed"
  /\ Rec(step.task).error = NULL
  /\ Has(Rec(step.task), "exit_code")
  /\ Rec(step.task).exit_code = Some(1)

(***************************************************************************)
(* C18: the registry holds an entry for a task from the return of          *)
(* StartTask until its process-exit or process-error handler runs; every   *)
(* exit path removes the entry, after which Get(id) returns null forever,  *)
(* while the record stays in the store.                                    *)
(***************************************************************************)
C18_RegistryEntryLifetime ==
  /\ [](\A taskId \in Started :
          /\ (getActiveTaskRuntimeState(registry, taskId) # NULL)
               <=> (proc[taskId].phase \in {"running", "spawn_failed"})
          /\ findTaskRecordById(tasks, taskId) # NULL)
  /\ [][\A taskId \in Started :
          /\ (getActiveTaskRuntimeState(registry, taskId) = NULL)
               => (getActiveTaskRuntimeState(registry', taskId) = NULL)
          /\ (ProcessError(taskId) \/ \E exitCode \in ExitCodes : ProcessClose(taskId, exitCode))
               => (getActiveTaskRuntimeState(registry', taskId) = NULL)]_vars

\* a task closed with exit code 0: its entry is gone, its record is kept
C18_Witness ==
  /\ step.event = "close"
  /\ step.exitCode = Some(0)
  /\ getActiveTaskRuntimeState(registry, step.task) = NULL
  /\ findTaskRecordById(tasks, step.task) # NULL

(***************************************************************************)
(* C13: for two tasks A and B in flight at the same time and any           *)
(* interleaving of their events, handling an event of A changes no field   *)
(* of B's record, B's accumulator or last-write time, or B's registry      *)
(* entry; and each task reaches a terminal status whether or not the other *)
(* fails.  Checked under ConcurrentSpec.                                   *)
(***************************************************************************)
C13_TasksAreIndependent ==
  /\ [][\A b \in Started :
          (step'.task # b) =>
            /\ TaskIndex(tasks', b) = TaskIndex(tasks, b)
            /\ Rec(b)' = Rec(b)
            /\ (b \in DOMAIN writer) => (writer'[b] = writer[b])
            /\ getActiveTaskRuntimeState(registry', b) = getActiveTaskRuntimeState(registry, b)
            /\ buffers'[b] = buffers[b]
            /\ proc'[b] = proc[b]]_vars
  /\ \A taskId \in ConcurrentTaskIds :
       (taskId \in Started) ~> (taskId \in Started /\ IsTerminal(Rec(taskId).status))

\* two tasks are in flight together, both children still running; the output
\* of one made it failed, the output of the other made it completed
C13_Witness ==
  \E a, b \in Started :
    /\ a # b
    /\ proc[a].phase = "running" /\ proc[b].phase = "running"
    /\ getActiveTaskRuntimeState(registry, a) # NULL
    /\ getActiveTaskRuntimeState(registry, b) # NULL
    /\ Rec(a).status = "failed" /\ Rec(b).status = "completed"

C20_KnownIdUpdateChangesOneRecord ==
  [][\A instance \in Instances, taskId \in RecordIds :
       \A patchFields \in StorePatches(taskId) :
         (/\ TaskIndex(Collection(instance), taskId) # 0
          /\ UpdateCall(instance, taskId, patchFields)) =>
            LET before == Collection(instance)
                after  == Collection(instance)'
                k      == TaskIndex(before, taskId)
            IN  /\ Len(after) = Len(before)
                /\ \A n \in DOMAIN before : (n # k) => (after[n] = before[n])
                /\ DOMAIN after[k] = DOMAIN before[k] \cup DOMAIN patchFields
                /\ \A f \in DOMAIN patchFields \ {"updated_at"} :
                     after[k][f] = patchFields[f]
                /\ after[k].updated_at = now
                /\ \A f \in DOMAIN before[k] \ (DOMAIN patchFields \cup {"updated_at"}) :
                     after[k][f] = before[k][f]
                /\ storeStep'.result = Some(after[k])
                /\ \A other \in Instances \ {instance} :
                     caches'[other] = caches[other]]_<<vars, storeVars>>

\* a record of a store holding two records was updated at a later time
C20_Witness ==
  /\ storeStep.op = "update"
  /\ storeStep.result # NULL
  /\ Len(Collection(storeStep.instance)) >= 2
  /\ storeStep.result[1].updated_at > storeStep.result[1].created_at
  /\ storeStep.result[1].status = "downloading"

(***************************************************************************)
(* C21: with one process owning the store, after every Insert and every    *)
(* Update that finds its id the parsed contents of the file equal the      *)
(* cache.                                                                  *)
(***************************************************************************)
\* the step is an Insert or an Update that found its id
AcceptedMutation ==
  /\ storeStep'.count # storeStep.count
  /\ \/ storeStep'.op = "insert"
     \/ storeStep'.op = "update" /\ storeStep'.result # NULL

C22_CacheIsAuthoritativeLastWriterWins ==
  [][\A instance \in Instances :
       /\ (storeStep'.instance # instance) => (caches'[instance] = caches[instance])
       /\ (/\ storeStep'.instance = instance
           /\ storeStep'.count # storeStep.count
           /\ caches[instance] # NULL
           /\ storeStep'.op # "restart") =>
             LET before == caches[instance][1].tasks
                 after  == caches'[instance][1].tasks
             IN  /\ (storeStep'.op = "retrieve_all") =>
                       /\ storeStep'.result = Some(before)
                       /\ after = before /\ disk' = disk
                 /\ (storeStep'.op = "find") =>
                       /\ storeStep'.result = findTaskRecordById(before, storeStep'.id)
                       /\ after = before /\ disk' = disk
                 /\ (storeStep'.op = "insert") =>
                       /\ after = Append(before, storeStep'.result[1])
                       /\ disk' = Some(JsonStringify(caches'[instance][1]))
                 /\ (storeStep'.op = "update") =>
                       /\ storeStep'.result = findTaskRecordById(after, storeStep'.id)
                       /\ Len(after) = Len(before)
                       /\ \A i \in DOMAIN before :
                             (before[i].id # storeStep'.id) => (after[i] = before[i])
                       /\ (storeStep'.result = NULL) => (disk' = disk)
                       /\ (storeStep'.result # NULL) =>
                             (disk' = Some(JsonStringify(caches'[instance][1])))]_<<vars, storeVars>>

\* two processes have written; the file holds the cache of the one that
\* inserted last, and a record the other one inserted is not in the file
C22_Witness ==
  \E writer1 \in Instances, loser \in Instances :
    /\ writer1 # loser
    /\ storeStep.op = "insert"
    /\ storeStep.instance = writer1
    /\ caches[writer1] # NULL
    /\ caches[loser] # NULL
    /\ disk = Some(JsonStringify(caches[writer1][1]))
    /\ \E taskId \in RecordIds :
         /\ TaskIndex(caches[loser][1].tasks, taskId) # 0
         /\ TaskIndex(caches[writer1][1].tasks, taskId) = 0
         /\ TaskIndex(ParsedDatabase(disk[1]).tasks, taskId) = 0

(***************************************************************************)
(* C23: round trip.  When the process that owns the store is restarted     *)
(* (its cache discarded), the records a reload reads from the file are the *)
(* records the process had: the same number, the same order, the same      *)
(* fields with the same values.                                            *)
(***************************************************************************)
\* the records a process without a cache loads from the file
ReloadedRecords == loadTaskDatabaseFromDisk(NULL, disk).cache[1].tasks

C23_RoundTrip ==
  [][Restart(Owner) => ReloadedRecords = caches[Owner][1].tasks]_<<vars, storeVars>>

(***************************************************************************)
(* C24: when the file is absent, is not JSON, or parses to something       *)
(* without a list of tasks, the first access of the store succeeds with an *)
(* empty collection: ListAll returns the empty list, an Insert on that     *)
(* collection succeeds, and the file then is a valid database whose list   *)
(* holds exactly the inserted record.                                      *)
(***************************************************************************)
\* the file is missing or does not hold a database
AbsentOrDamaged(file) == file = NULL \/ file[1].kind # "database"

\* the owner is at its first access of a missing or damaged file, or holds
\* the empty collection such an access gave it
OnEmptyCollection ==
  \/ caches[Owner] = NULL /\ AbsentOrDamaged(disk)
  \/ caches[Owner] # NULL /\ caches[Owner][1].tasks = <<>>

C24_DamagedFileIsEmptyCollection ==
  [][(OnEmptyCollection /\ storeStep'.count # storeStep.count) =>
       /\ (storeStep'.op = "retrieve_all") =>
             /\ storeStep'.result = Some(<<>>)
             /\ caches'[Owner] # NULL
             /\ caches'[Owner][1].tasks = <<>>
       /\ (storeStep'.op = "find") => storeStep'.result = NULL
       /\ (storeStep'.op = "insert") =>
             /\ storeStep'.result # NULL
             /\ storeStep'.result[1].id = storeStep'.id
             /\ disk' # NULL
             /\ disk'[1].kind = "database"
             /\ ParsedDatabase(disk'[1]).tasks = <<storeStep'.result[1]>>
             /\ caches'[Owner][1].tasks = <<storeStep'.result[1]>>]_<<vars, storeVars>>

\* ListAll on a file that held an object without a list of tasks, then an
\* Insert: the file is a database with the one record (and the foreign field)
C24_Witness ==
  /\ storeStep.op = "insert"
  /\ storeStep.count = 2
  /\ disk # NULL
  /\ disk[1].kind = "database"
  /\ Has(disk[1].fields, "version")
  /\ disk[1].fields.tasks = <<storeStep.result[1]>>

(***************************************************************************)
(* C25: the store's sequence of record ids only grows at its end.  Across  *)
(* every step (Insert, Update, FindById, ListAll, a task-history query, a  *)
(* restart) the ids the store held are a prefix of the ids it holds; the   *)
(* list a ListAll or a task-history query works on is a copy, so its       *)
(* sorting, reversing and slicing leave the store's order alone.           *)
(***************************************************************************)
\* the ids of a list of records, in order
IdsOf(taskRecords) == [i \in 1..Len(taskRecords) |-> taskRecords[i].id]

IsPrefix(shorter, longer) ==
  /\ Len(shorter) <= Len(longer)
  /\ SubSeq(longer, 1, Len(shorter)) = shorter

C25_RecordsOnlyAppended ==
  [][/\ IsPrefix(IdsOf(Collection(Owner)), IdsOf(Collection(Owner)'))
     /\ Len(Collection(Owner)') <= Len(Collection(Owner)) + 1
     /\ (storeStep'.op \in {"retrieve_all", "find", "task_history", "update", "restart"}) =>
           IdsOf(Collection(Owner)') = IdsOf(Collection(Owner))]_<<vars, storeVars>>

\* a task-history query has returned two records newest first while the
\* store still holds them oldest first
C25_Witness ==
  /\ storeStep.op = "task_history"
  /\ storeStep.result[1].success
  /\ Len(storeStep.result[1].tasks) = 2
  /\ Len(Collection(Owner)) = 2
  /\ storeStep.result[1].tasks[1].id = Collection(Owner)[2].id
  /\ storeStep.result[1].tasks[2].id = Collection(Owner)[1].id
  /\ Collection(Owner)[1].created_at < Collection(Owner)[2].created_at

(***************************************************************************)
(* C26: in every reachable state all records of the store have pairwise    *)
(* distinct ids, and an id is never reused: across every StartTask call    *)
(* and every Insert and Update it and the handlers issue, the ids the      *)
(* store held stay where they were, and a new id differs from all of them. *)
(***************************************************************************)
PairwiseDistinctIds(taskRecords) ==
  \A i \in DOMAIN taskRecords, j \in DOMAIN taskRecords :
    (i # j) => (taskRecords[i].id # taskRecords[j].id)

ImmutableFields == {"id", "type", "created_at"}

C27_IdentityFieldsNeverChange ==
  [][/\ \A i \in DOMAIN tasks : \A key \in ImmutableFields :
          /\ i \in DOMAIN tasks'
          /\ Has(tasks'[i], key)
          /\ tasks'[i][key] = tasks[i][key]
     /\ \A i \in DOMAIN step'.writes : \A key \in ImmutableFields :
          /\ Has(step'.writes[i], key)
          /\ step'.writes[i][key] = tasks'[TaskIndex(tasks', step'.task)][key]]_vars

\* a transcription record has stored a payload with the keys id, type and
\* created_at under last_progress and still has its own values of them
C27_Witness ==
  \E taskId \in Started :
    /\ Rec(taskId).type = "transcription"
    /\ Rec(taskId).last_progress # NULL
    /\ Has(Rec(taskId).last_progress[1].fields, "id")
    /\ Rec(taskId).last_progress[1].fields.id # Rec(taskId).id
    /\ Rec(taskId).last_progress[1].fields.type # Rec(taskId).type
    /\ Rec(taskId).last_progress[1].fields.created_at # Rec(taskId).created_at
    /\ Rec(taskId).id = taskId
    /\ IsTerminal(Rec(taskId).status)

(***************************************************************************)
(* C28: after every Update that finds its id the record's updated_at is    *)
(* the clock value at that Update, also when the patch names updated_at    *)
(* itself; the clock never going back, updated_at of a record never        *)
(* decreases, and whenever finished_at is set,                             *)
(* created_at <= finished_at <= updated_at.                                *)
(***************************************************************************)
TimestampsOrdered(taskRecords) ==
  \A i \in DOMAIN taskRecords :
    (taskRecords[i].finished_at # NULL) =>
      /\ taskRecords[i].created_at <= taskRecords[i].finished_at[1]
      /\ taskRecords[i].finished_at[1] <= taskRecords[i].updated_at

C28_UpdatedAtIsTimeOfLastUpdate ==
  /\ [](TimestampsOrdered(Collection(Owner)))
  /\ [][/\ (/\ storeStep'.count # storeStep.count
            /\ storeStep'.op = "update"
            /\ storeStep'.result # NULL) =>
             /\ storeStep'.result[1].updated_at = now'
             /\ findTaskRecordById(Collection(Owner)', storeStep'.id) = storeStep'.result
        /\ \A i \in DOMAIN Collection(Owner) :
             Collection(Owner)'[i].updated_at >= Collection(Owner)[i].updated_at]_<<vars, storeVars>>

\* a record was finished by a patch that named a stale updated_at, at a
\* time after its creation, and carries the time of that Update
C28_Witness ==
  /\ storeStep.op = "update"
  /\ storeStep.result # NULL
  /\ storeStep.result[1].finished_at # NULL
  /\ storeStep.result[1].created_at < storeStep.result[1].finished_at[1]
  /\ storeStep.result[1].updated_at = now
  /\ storeStep.result[1].updated_at # StaleStamp
  /\ storeStep.result[1].status = "failed"

(***************************************************************************)
(* C29: whatever the stream holds and however it is cut into chunks, the   *)
(* download line reader hands the parser exactly the non-empty lines of    *)
(* the whole stream split at line feeds (a carriage return before the line *)
(* feed dropped), in order and each once: the lines do not depend on where *)
(* the chunks end.  The lines of the whole stream are taken with the       *)
(* reader's own rules: a last line without a line feed counts trimmed.     *)
(***************************************************************************)
\* the non-empty lines of the whole stream, decoded and split in one piece
WholeStreamLines(content) ==
  LinesForParser(CompletedLines("", BufferToString(content)))
    \o FlushedLines(RemainingBuffer("", BufferToString(content)))

C29_LinesIndependentOfChunking ==
  reader.ended => reader.handed = WholeStreamLines(reader.content)

(***************************************************************************)
(* C30: when a stream ends while its reader holds a non-empty partial line *)
(* (no newline after it), the `end` event hands that line to the parser,   *)
(* once: for both streams of a download task the writer is called once     *)
(* with the patch of that line, and for the stderr of a transcription task *)
(* a line that is a JSON progress line is written to the record.           *)
(***************************************************************************)
C30_PartialLineFlushedAtEnd ==
  [][\A taskId \in Started, stream \in StreamNames :
       LET partial == Trim(buffers[taskId][stream])
       IN  (StreamEnd(taskId, stream) /\ partial # "") =>
             /\ IsDownload(taskId) =>
                   /\ Len(step'.calls) = 1
                   /\ step'.calls[1].patch = parseYtDlpProgressOutputLine(partial)
             /\ (~IsDownload(taskId) /\ stream = "stderr" /\ JsonParse(partial) # NULL) =>
                   /\ Len(step'.writes) = 1
                   /\ step'.writes[1].last_progress = JsonParse(partial)]_vars

(***************************************************************************)
(* C31: for a line that begins with `[download]` and contains a percentage *)
(* token (a number and `%`, followed by a space or by the end of the line  *)
(* or by anything else), the parser returns a patch whose percentage is    *)
(* that number clamped to [0,100] and rounded to one decimal place, and    *)
(* whose status is "downloading".  Lines that also carry the error or the  *)
(* already-downloaded pattern are left aside.                              *)
(***************************************************************************)
\* a number and `%` starting at position i, whatever follows the `%`
NumberAndPercentAt(line, i) ==
  IF ~(CharAt(line, i) \in DigitChars /\ WordBoundaryAt(line, i)) THEN NULL
  ELSE LET j == RunEnd(line, i, DigitChars)
           k == RunEnd(line, j + 1, DigitChars)
       IN  IF CharAt(line, j) = "." /\ k > j + 1 /\ CharAt(line, k) = "%"
           THEN Some(<<SubSeq(line, i, j - 1), SubSeq(line, j + 1, k - 1)>>)
           ELSE IF CharAt(line, j) = "%"
           THEN Some(<<SubSeq(line, i, j - 1), "">>)
           ELSE NULL

\* the first percentage token of the line: NULL or Some(<<int, frac>>)
PercentageToken(line) ==
  LET starts == {i \in 1..Len(line) : NumberAndPercentAt(line, i) # NULL}
  IN  IF starts = {} THEN NULL ELSE NumberAndPercentAt(line, SetMin(starts))

C31_PercentageLineYieldsProgress ==
  parserCall.patch # NULL =>
    LET line  == Trim(parserCall.line)
        token == PercentageToken(line)
        patch == parserCall.patch[1]
    IN  ( /\ StartsWith(line, "[download]")
          /\ token # NULL
          /\ ~IsErrorLine(line)
          /\ ~Includes(line, "has already been downloaded") ) =>
            /\ Has(patch, "percentage")
            /\ patch.percentage = RoundedPercentTenths(token[1])
            /\ Has(patch, "status")
            /\ patch.status = "downloading"

(***************************************************************************)
(* C32: for every line that matches none of the parser's patterns          *)
(* (destination, already downloaded, percentage, transfer rate, ETA,       *)
(* error) the parser returns null, no patch, so that processOutputLine     *)
(* hands nothing to the batched writer.                                    *)
(***************************************************************************)
MatchesNoPattern(line) ==
  /\ DestinationFileMatch(line) = NULL
  /\ ~Includes(line, "has already been downloaded")
  /\ PercentageMatch(line) = NULL
  /\ DownloadSpeedMatch(line) = NULL
  /\ EstimatedTimeMatch(line) = NULL
  /\ ~IsErrorLine(line)

C32_UnmatchedLineYieldsNoPatch ==
  (parserCall.patch # NULL /\ MatchesNoPattern(Trim(parserCall.line))) =>
    parserCall.patch[1] = EmptyObject

(***************************************************************************)
(* C33: the parser's patch has status "failed" exactly for the lines that  *)
(* begin with `ERROR:`, and then its error is the line without that        *)
(* prefix; a line that only contains `Error:` somewhere never yields the   *)
(* failed status.                                                          *)
(***************************************************************************)
C33_FailedExactlyForErrorPrefix ==
  parserCall.patch # NULL =>
    LET line  == Trim(parserCall.line)
        patch == parserCall.patch[1]
        failed == Has(patch, "status") /\ patch.status = "failed"
    IN  /\ failed <=> StartsWith(line, "ERROR:")
        /\ StartsWith(line, "ERROR:") =>
             /\ Has(patch, "error")
             /\ patch.error = Some(StripErrorPrefix(line))

(***************************************************************************)
(* C34: a data event of a transcription task's stderr whose lines are all  *)
(* either not valid JSON or valid JSON without the expected shape (no      *)
(* numeric progress, no recognised status) produces no patch: the records  *)
(* of the store are left as they were, the percentage included.            *)
(***************************************************************************)
\* the line is valid JSON with a numeric progress or a recognised status
HasExpectedShape(text) ==
  LET progressData == JsonParse(text)
  IN  /\ progressData # NULL
      /\ \/ Has(progressData[1].fields, "progress")
         \/ /\ Has(progressData[1].fields, "status")
            /\ progressData[1].fields.status \in {"completed", "error"}

C34_ShapelessLineLeavesRecord ==
  [][\A taskId \in Started, chunk \in TranscriptionChunks :
       LET lines == CompletedLines(buffers[taskId].stderr, chunk)
       IN  ( /\ TranscriptionData(taskId, chunk)
             /\ \A k \in 1..Len(lines) : ~HasExpectedShape(Trim(lines[k])) ) =>
               tasks' = tasks]_vars

(***************************************************************************)
(* C35: for both kinds of task the progress lines go through the batched   *)
(* writer: a data event that arrives less than PERSIST_INTERVAL_MS after   *)
(* the task's previous store write writes no record with a non-terminal    *)
(* status (its progress patches are held), and no data event makes more    *)
(* than one such write.  The previous store write of a download task is    *)
(* the writer's lastDiskPersistTimestamp, that of a transcription task the *)
(* updated_at of its record.                                               *)
(***************************************************************************)
PreviousStoreWrite(taskId) ==
  IF taskId \in DOMAIN writer THEN writer[taskId].last ELSE Rec(taskId).updated_at

C35_ProgressWritesAreBatched ==
  [][\A taskId \in Started :
       (step' # step /\ step'.task = taskId /\ step'.event = "data") =>
         LET progressWrites == {k \in DOMAIN step'.writes :
                                  ~IsTerminal(step'.writes[k].status)}
         IN  /\ Cardinality(progressWrites) <= 1
             /\ now - PreviousStoreWrite(taskId) < PERSIST_INTERVAL_MS =>
                  progressWrites = {}]_vars

(***************************************************************************)
(* C36: a call of the task-history tool with a limit below 1 or an offset  *)
(* below 0 yields an error result with no tasks.  Every other call yields  *)
(* total = the number of records that match the type and status filters,   *)
(* and as tasks the summaries of at most min(floor(limit), 200) of them    *)
(* (50 without a limit), taken from position floor(offset) of the matching *)
(* records in the order of created_at, newest first unless order is asc.   *)
(***************************************************************************)
\* the positions of the records that pass the filters of the call
MatchingRecords(collection, args) ==
  {k \in DOMAIN collection :
     /\ args.type # "" => collection[k].type = args.type
     /\ args.status # "" => collection[k].status = args.status}

\* ord lists the positions of `matching` once each, by created_at
IsOrderedByCreatedAt(ord, matching, collection, order) ==
  /\ \A k \in matching : \E n \in DOMAIN ord : ord[n] = k
  /\ \A n \in 1..(Len(ord) - 1) :
       IF order = "asc"
       THEN collection[ord[n]].created_at <= collection[ord[n + 1]].created_at
       ELSE collection[ord[n]].created_at >= collection[ord[n + 1]].created_at

HistoryResultAsSpecified(collection, args, result) ==
  LET matching == MatchingRecords(collection, args)
      total    == Cardinality(matching)
      maxTasks == IF args.limit = NULL THEN 50
                  ELSE IF Floor(args.limit[1]) < 200 THEN Floor(args.limit[1]) ELSE 200
      from     == IF args.offset = NULL THEN 0 ELSE Floor(args.offset[1])
      rest     == IF total > from THEN total - from ELSE 0
      rejected == \/ args.limit # NULL /\ args.limit[1] < 10
                  \/ args.offset # NULL /\ args.offset[1] < 0
  IN  IF rejected
      THEN ~result.success /\ ~Has(result, "tasks")
      ELSE /\ result.success
           /\ result.total = total
           /\ Len(result.tasks) <= maxTasks
           /\ Len(result.tasks) = (IF rest < maxTasks THEN rest ELSE maxTasks)
           /\ \E ord \in [1..total -> matching] :
                /\ IsOrderedByCreatedAt(ord, matching, collection, args.order)
                /\ \A n \in 1..Len(result.tasks) :
                     result.tasks[n] = TaskSummary(collection[ord[from + n]])

C36_HistoryPageOfMatchingRecords ==
  [][\A args \in HistoryRequests :
       TaskHistoryCall(Owner, args) =>
         HistoryResultAsSpecified(Collection(Owner), args, storeStep'.result[1])
    ]_<<vars, storeVars>>

\* a page of one task taken from position 1 of two matching records
C36_Witness ==
  /\ storeStep.op = "task_history"
  /\ storeStep.result[1].success
  /\ storeStep.result[1].total = 2
  /\ storeStep.result[1].offset = 1
  /\ Len(storeStep.result[1].tasks) = 1

(***************************************************************************)
(* C37: in every reachable state every id that has an entry in the         *)
(* registry of active tasks also has a TaskRecord in the store.            *)
(***************************************************************************)
C37_RegisteredIdsHaveRecords ==
  \A taskId \in DOMAIN registry : TaskIndex(tasks, taskId) # 0

\* a registered task whose record has just been written by its output handler
C37_Witness ==
  \E taskId \in DOMAIN registry :
    /\ TaskIndex(tasks, taskId) # 0
    /\ step.task = taskId
    /\ step.event = "data"
    /\ step.writes # <<>>

(***************************************************************************)
(* C38: once the finished_at of a TaskRecord is not null, no later event   *)
(* changes its value: the finish time of a task is stamped once, also when *)
(* an output line marked the task completed before the exit handler runs.  *)
(***************************************************************************)
C38_FinishedAtStampedOnce ==
  [][\A k \in DOMAIN tasks :
       tasks[k].finished_at # NULL =>
         tasks'[k].finished_at = tasks[k].finished_at]_vars

(***************************************************************************)
(* C39: the process-exit handler of a task writes every field its writer   *)
(* still held together with the exit patch, and once it has run the task's *)
(* pending accumulator is empty and no later event (of this task or of     *)
(* another one) writes to the task's record again.                         *)
(***************************************************************************)
\* the fields the completion patch sets itself
CompletionFields == {"status", "finished_at", "exit_code", "percentage"}

C39_NoWriteAfterExitHandler ==
  [][\A taskId \in Started :
       /\ proc[taskId].phase = "closed" =>
            /\ taskId \in DOMAIN writer => writer[taskId].pending = NULL
            /\ Rec(taskId)' = Rec(taskId)
       /\ (proc[taskId].phase # "closed" /\ proc'[taskId].phase = "closed"
             /\ taskId \in DOMAIN writer) =>
            /\ writer'[taskId].pending = NULL
            /\ \A f \in DOMAIN writer[taskId].pending \ CompletionFields :
                 Rec(taskId)'[f] = writer[taskId].pending[f]]_vars

\* a task has closed after its writer held a field, and an event of another
\* task ran afterwards
C39_Witness ==
  \E taskId \in Started :
    /\ proc[taskId].phase = "closed"
    /\ taskId \in DOMAIN writer
    /\ step.task # taskId
    /\ step.event \in {"data", "end", "close"}
    /\ Rec(taskId).last_line # NULL
    /\ Rec(taskId).percentage = 1000
    /\ Rec(taskId).status = "failed"

(***************************************************************************)
(* C40: when the owning process stops while a task is non-terminal and a   *)
(* new process loads the store from the file, the load changes no record   *)
(* (every field it reads has the value the stopped process had, the status *)
(* included), the task has no registry entry, and from then on no step     *)
(* moves the task's record to a terminal status.                           *)
(***************************************************************************)
C40_OrphanedTaskStaysNonTerminal ==
  [][\A taskId \in Started :
       LET k == TaskIndex(tasks, taskId)
       IN  /\ ServiceRestart =>
                /\ Len(tasks') = Len(tasks)
                /\ \A f \in DOMAIN tasks'[k] : tasks'[k][f] = tasks[k][f]
                /\ tasks'[k].status = tasks[k].status
                /\ taskId \notin DOMAIN registry'
           /\ (proc[taskId].phase = "lost" /\ ~IsTerminal(tasks[k].status)) =>
                /\ ~IsTerminal(tasks'[k].status)
                /\ taskId \notin DOMAIN registry']_vars

\* a task left running by the stopped process, after a task of the new
\* process has run to its exit
C40_Witness ==
  \E taskId \in Started :
    /\ proc[taskId].phase = "lost"
    /\ Rec(taskId).status = "running"
    /\ step.task # taskId
    /\ step.event = "close"
    /\ IsTerminal(Rec(step.task).status)

====
